---------------------------- MODULE Spec2Model ----------------------------
(***************************************************************************)
(* Crusoe audit-log -> Splunk HEC forwarder (src/crusoe-splunk-hec).       *)
(*                                                                         *)
(* Spec models the `daemon` command of main.py: the scheduling loop, the   *)
(* one-shot LogForwarder.forward_logs it calls every cycle, the            *)
(* EventDeduplicator it attaches, SplunkHECClient.send_events_batch and    *)
(* the paginated fetch of CrusoeClient, together with the two things the   *)
(* environment can do to the process: deliver a KeyboardInterrupt and      *)
(* kill/restart it.  Time is wall-clock seconds.                           *)
(*                                                                         *)
(* SpecSend, SpecForward and SpecDedup model one call of                   *)
(* send_events_batch, one call of forward_logs and one EventDeduplicator   *)
(* object on their own, over any input, sink answer, fetch outcome and     *)
(* call order.  SpecFetch models one call of get_audit_logs_paginated,    *)
(* SpecHash the fingerprint of two events, SpecPersist the state file of   *)
(* a deduplicator over several process lifetimes, and SpecSign the         *)
(* headers CrusoeClient._sign_request makes from the credentials.          *)
(* SpecForwardInterrupted is SpecForward with a stop signal, SpecOneShot   *)
(* two runs of a one-shot forward command over one window.                 *)
(***************************************************************************)
EXTENDS Integers, Sequences, FiniteSets, TLC

(***************************************************************************)
(* Program constants                                                       *)
(***************************************************************************)
\* main.py:309  start_time = last_run_time - timedelta(seconds=30)
Overlap == 30
\* main.py:257  --interval default
DefaultInterval == 300
\* main.py:258  --lookback default
DefaultLookback == 600
\* main.py:260  --dedup-buffer-seconds default
DefaultBuffer == 60

(***************************************************************************)
(* Bounds of the model                                                     *)
(***************************************************************************)
\* wall-clock time at which the daemon is first started
StartTime == 1000
\* a second, short --lookback value given on the command line
ShortLookback == 60
\* seconds a slow step (a page fetch, a POST, a state-file write) takes
SlowStep == 45
\* seconds the process stays down when it is restarted after a long outage
LongDowntime == 1000
\* config.batch_size (BATCH_SIZE), used as page size and as chunk size
BatchSize == 2
\* cycles started over the whole run, all processes together
MaxCycles == 2
\* process restarts
MaxRestarts == 1

Intervals == {DefaultInterval}
Lookbacks == {DefaultLookback, ShortLookback}
Buffers   == {DefaultBuffer}
Durations == {0, SlowStep}
Downtimes == {0, LongDowntime}

(***************************************************************************)
(* Events held by the source API, in the order the API lists them.         *)
(* `created` is the creation time the API filters on; the other six fields *)
(* are the identity fields, as text (sequences of characters).             *)
(***************************************************************************)
SourceEvents ==
  << [created |-> StartTime - 50, start_time |-> <<"t", "1">>, actor_id |-> <<"u">>,
      action |-> <<"c">>, target_type |-> <<"v", "m">>, target_id |-> <<"1">>,
      organization_id |-> <<"o">>],
     [created |-> StartTime - 10, start_time |-> <<"t", "2">>, actor_id |-> <<"u">>,
      action |-> <<"d">>, target_type |-> <<"v", "m">>, target_id |-> <<"1">>,
      organization_id |-> <<"o">>],
     [created |-> StartTime - 5, start_time |-> <<"t", "3">>, actor_id |-> <<"w">>,
      action |-> <<"c">>, target_type |-> <<"v", "m">>, target_id |-> <<"2">>,
      organization_id |-> <<"o">>] >>

EventIds == 1 .. Len(SourceEvents)

Created(e) == SourceEvents[e].created

(***************************************************************************)
(* Sequence helpers                                                        *)
(***************************************************************************)
RECURSIVE Join(_)
\* '|'.join(parts)
Join(parts) ==
  IF parts = <<>> THEN <<>>
  ELSE IF Len(parts) = 1 THEN parts[1]
  ELSE parts[1] \o <<"|">> \o Join(Tail(parts))

Range(s) == {s[i] : i \in 1 .. Len(s)}

Min(a, b) == IF a <= b THEN a ELSE b

\* a slice that takes the element at its end index too
SliceEndInclusive(s, i, j) == SubSeq(s, i + 1, Min(j + 1, Len(s)))

\* Python slice s[i:j] with 0 <= i (0-based, end exclusive, clipped)
Slice(s, i, j) == SubSeq(s, i + 1, Min(j, Len(s)))

(***************************************************************************)
(* EventDeduplicator (deduplicator.py)                                     *)
(***************************************************************************)
\* the six key fields, str()-ed, joined with '|'; the SHA-256 digest is
\* taken to be injective, so the fingerprint is the key string itself
_generate_event_hash(e) ==
  Join(<< SourceEvents[e].start_time, SourceEvents[e].actor_id,
          SourceEvents[e].action, SourceEvents[e].target_type,
          SourceEvents[e].target_id, SourceEvents[e].organization_id >>)

EmptyMap == [h \in {} |-> 0]

\* a tracking window that is the interval alone, without overlap and buffer
TrackingWindowNoOverlap(interval, buffer) == interval

\* main.py:274  tracking_window = interval + 30 + dedup_buffer_seconds
TrackingWindow(interval, buffer) == interval + 30 + buffer

\* a purge that removes every record
_cleanup_all_entries(seen, enabled, window, t) == EmptyMap

\* _cleanup_old_entries: keep the records with timestamp > now - window
_cleanup_old_entries(seen, enabled, window, t) ==
  IF ~enabled THEN seen
  ELSE [h \in {x \in DOMAIN seen : seen[x] > t - window} |-> seen[h]]

\* is_duplicate, as a function of the records left by the purge it does first
is_duplicate(seen, enabled, e) ==
  enabled /\ _generate_event_hash(e) \in DOMAIN seen

\* a filter that also drops an event whose fingerprint an earlier event of
\* the same input has
filter_duplicates_distinct(seen, enabled, events) ==
  IF ~enabled THEN events
  ELSE LET kept == { k \in 1 .. Len(events) :
                       /\ ~is_duplicate(seen, enabled, events[k])
                       /\ \A j \in 1 .. k - 1 :
                            _generate_event_hash(events[j]) #
                              _generate_event_hash(events[k]) }
           RECURSIVE pick(_)
           pick(k) == IF k > Len(events) THEN <<>>
                      ELSE IF k \in kept THEN <<events[k]>> \o pick(k + 1)
                      ELSE pick(k + 1)
       IN pick(1)

\* a filter that lets every event through
filter_duplicates_none(seen, enabled, events) == events

\* filter_duplicates: the events of the list that are no duplicates, in order
filter_duplicates(seen, enabled, events) ==
  IF ~enabled THEN events
  ELSE SelectSeq(events, LAMBDA e : ~is_duplicate(seen, enabled, e))

\* a mark_events_as_sent that gives every marked event the current time
MarkedRecordsRefreshed(seen, events, t) ==
  [h \in DOMAIN seen \cup {_generate_event_hash(e) : e \in Range(events)} |->
     IF h \in {_generate_event_hash(e) : e \in Range(events)} THEN t ELSE seen[h]]

\* mark_events_as_sent: the record mapping after the insertion loop
MarkedRecords(seen, events, t) ==
  [h \in DOMAIN seen \cup {_generate_event_hash(e) : e \in Range(events)} |->
     IF h \in DOMAIN seen THEN seen[h] ELSE t]

\* a _load_state that reads the file of a disabled store too
_load_state_if_exists(file, enabled, window, t) ==
  IF file = <<>> THEN EmptyMap
  ELSE _cleanup_old_entries(file[1], enabled, window, t)

\* _load_state: records of the file (if any), purged
_load_state(file, enabled, window, t) ==
  IF ~enabled \/ file = <<>> THEN EmptyMap
  ELSE _cleanup_old_entries(file[1], enabled, window, t)

(***************************************************************************)
(* CrusoeClient (crusoe_client.py)                                         *)
(***************************************************************************)
\* the source API's answer for the window [s, e): its events, in its order
EventsInWindow(s, e) ==
  SelectSeq([i \in EventIds |-> i], LAMBDA x : s <= Created(x) /\ Created(x) < e)

\* what get_audit_logs_paginated returns when an unexpected exception ends
\* the pagination: the whole pages fetched before the failing request
TruncatedResults(all, page_size) ==
  {SubSeq(all, 1, k * page_size) : k \in {j \in 0 .. Len(all) : j * page_size <= Len(all)}}

(***************************************************************************)
(* State                                                                   *)
(***************************************************************************)
VARIABLES
  now,                  \* wall clock
  interval,             \* daemon option --interval
  lookback,             \* daemon option --lookback
  dedup_buffer_seconds, \* daemon option --dedup-buffer-seconds
  enable_dedup,         \* daemon option --enable-dedup/--disable-dedup
  pc,                   \* position of the daemon function
  last_run_time,        \* <<>> is None, <<t>> is a time
  start_time,           \* window of the current cycle
  end_time,
  logs,                 \* forward_logs: the list being forwarded
  i,                    \* send_events_batch: offset of the next chunk
  successfully_sent_events,
  seen_events,          \* EventDeduplicator.seen_events
  state_file,           \* <<>>: no file; <<m>>: file holding record map m
  cycles,               \* cycles started, all processes together
  restarts,             \* restarts so far
  hist,                 \* history of the run, for stating the properties
  call                  \* a single call studied on its own: its arguments,
                        \* locals and result (NoCall in the daemon model)

vars == << now, interval, lookback, dedup_buffer_seconds, enable_dedup, pc,
           last_run_time, start_time, end_time, logs, i,
           successfully_sent_events, seen_events, state_file, cycles,
           restarts, hist, call >>

config == << interval, lookback, dedup_buffer_seconds, enable_dedup >>

InCycle == {"fetch", "send", "mark"}
Running == {"top"} \cup InCycle \cup {"sleep"}
Exited  == {"stopped", "raised"}

window == TrackingWindow(interval, dedup_buffer_seconds)

(***************************************************************************)
(* History (not program state).                                            *)
(*   returned    events in some accepted_events returned by send_batch     *)
(*   sinkOk      events of chunks the sink confirmed                       *)
(*   resent      an event in sinkOk was posted again in a later cycle      *)
(*   failedCur   events of failed chunks of the cycle in progress          *)
(*   failedPrev  events of failed chunks of the last ended cycle           *)
(*   exc         how the last ended cycle ended: "none" (returned) or the  *)
(*               exception; "-" before any cycle has ended in this process *)
(*   prevStart, prevEnd  window of the last ended cycle of this process    *)
(*   cycleInRun  cycles started by this process                            *)
(*   lastOkEnd   end of the last window whose cycle returned (any process) *)
(*   anyRaise, anyFail, saveFailed   a cycle raised / a chunk failed /     *)
(*               a state-file write failed, at some time                   *)
(*   prevDur     duration of the last ended cycle, <<>> if none            *)
(*   dursOk      every ended cycle lasted less than the dedup buffer       *)
(*   sumsOk      every two consecutive ended cycles lasted together less   *)
(*               than overlap + buffer                                     *)
(*   stopSignal  a KeyboardInterrupt was delivered to this process         *)
(*   ended       cycles ended by a return or an exception of forward_logs  *)
(*   truncCur    the fetch of the cycle in progress was cut short by an    *)
(*               unexpected exception and returned less than the window    *)
(*   truncPrev   so was the fetch of the last ended cycle of this process  *)
(***************************************************************************)
NoCall == [op |-> "-"]

InitHist ==
  [returned |-> {}, sinkOk |-> {}, resent |-> FALSE, failedCur |-> {},
   failedPrev |-> {}, exc |-> "-", prevStart |-> 0, prevEnd |-> 0,
   cycleInRun |-> 0, lastOkEnd |-> <<>>, anyRaise |-> FALSE, anyFail |-> FALSE,
   saveFailed |-> FALSE, prevDur |-> <<>>, dursOk |-> TRUE, sumsOk |-> TRUE,
   stopSignal |-> FALSE, ended |-> 0, truncCur |-> FALSE, truncPrev |-> FALSE]

Init ==
  /\ now = StartTime
  /\ interval \in Intervals
  /\ lookback \in Lookbacks
  /\ dedup_buffer_seconds \in Buffers
  /\ enable_dedup \in BOOLEAN
  /\ pc = "top"
  /\ last_run_time = <<>>
  /\ start_time = 0
  /\ end_time = 0
  /\ logs = <<>>
  /\ i = 0
  /\ successfully_sent_events = <<>>
  /\ seen_events = EmptyMap
  /\ state_file = <<>>
  /\ cycles = 0
  /\ restarts = 0
  /\ hist = InitHist
  /\ call = NoCall

(***************************************************************************)
(* daemon (main.py:262-335)                                                *)
(***************************************************************************)
\* the first window starting at its own end minus the overlap
WindowStartNoLookback(lrt, end, lb) ==
  IF lrt = <<>> THEN end - Overlap ELSE lrt[1] - Overlap

\* main.py:302-309
WindowStart(lrt, end, lb) ==
  IF lrt = <<>> THEN end - lb ELSE lrt[1] - Overlap

\* a handler that lets everything but a source API error leave the loop
DaemonHandlerApiOnly(exception) ==
  IF exception = "KeyboardInterrupt" THEN "stopped"
  ELSE IF exception = "CrusoeAPIError" THEN "sleep" ELSE "raised"

\* main.py:326-335: where the daemon goes when the cycle's try block raises
DaemonHandler(exception) ==
  IF exception = "KeyboardInterrupt" THEN "stopped" ELSE "sleep"

\* a watermark that never advances
WatermarkAfterNever(lrt, end, exception) == lrt

\* a watermark that advances although the cycle raised
WatermarkAfterAlways(lrt, end, exception) == <<end>>

\* main.py:324 is reached only when forward_logs returned
WatermarkAfter(lrt, end, exception) ==
  IF exception = "none" THEN <<end>> ELSE lrt

\* history at the end of a cycle lasting until time t
EndHist(h, exception, t) ==
  LET dur == t - end_time IN
  [h EXCEPT !.exc = exception,
            !.ended = @ + 1,
            !.failedPrev = h.failedCur,
            !.failedCur = {},
            !.truncPrev = h.truncCur,
            !.truncCur = FALSE,
            !.prevStart = start_time,
            !.prevEnd = end_time,
            !.lastOkEnd = IF exception = "none" THEN <<end_time>> ELSE @,
            !.anyRaise = @ \/ exception # "none",
            !.prevDur = <<dur>>,
            !.dursOk = @ /\ dur < dedup_buffer_seconds,
            !.sumsOk = @ /\ (h.prevDur = <<>> \/
                             h.prevDur[1] + dur < Overlap + dedup_buffer_seconds)]

\* the cycle's try block is left at time t, by return ("none") or by an
\* exception; h is the history up to there
EndCycle(exception, t, h) ==
  /\ pc' = DaemonHandler(exception)
  /\ last_run_time' = WatermarkAfter(last_run_time, end_time, exception)
  /\ logs' = <<>>
  /\ i' = 0
  /\ successfully_sent_events' = <<>>
  /\ hist' = EndHist(h, exception, t)

\* main.py:295-312: top of the loop, the window of this cycle
CycleStart ==
  /\ pc = "top"
  /\ cycles < MaxCycles
  /\ cycles' = cycles + 1
  /\ end_time' = now
  /\ start_time' = WindowStart(last_run_time, now, lookback)
  /\ pc' = "fetch"
  /\ hist' = [hist EXCEPT !.cycleInRun = @ + 1]
  /\ UNCHANGED << now, call, config, last_run_time, logs, i, successfully_sent_events,
                  seen_events, state_file, restarts >>

(***************************************************************************)
(* LogForwarder.forward_logs (main.py:64-134), one step per blocking call  *)
(***************************************************************************)
\* main.py:83-104: the paginated fetch, then the duplicate filter.  The
\* fetch takes d seconds and ends with a source API error, with the whole
\* window, or (unexpected exception inside the pagination) with the pages
\* fetched so far.
Fetch ==
  /\ pc = "fetch"
  /\ \E d \in Durations :
       /\ now' = now + d
       /\ \/ /\ EndCycle("CrusoeAPIError", now', hist)
             /\ UNCHANGED seen_events
          \/ \E fetched \in {EventsInWindow(start_time, end_time)}
                   \cup TruncatedResults(EventsInWindow(start_time, end_time), BatchSize) :
               LET h == [hist EXCEPT !.truncCur =
                                         fetched # EventsInWindow(start_time, end_time)]
               IN
               IF fetched = <<>>
               THEN /\ EndCycle("none", now', h)
                    /\ UNCHANGED seen_events
               ELSE LET purged == _cleanup_old_entries(seen_events, enable_dedup, window, now')
                        unique == filter_duplicates(purged, enable_dedup, fetched)
                    IN /\ seen_events' = purged
                       /\ IF unique = <<>>
                          THEN EndCycle("none", now', h)
                          ELSE /\ pc' = "send"
                               /\ logs' = unique
                               /\ i' = 0
                               /\ successfully_sent_events' = <<>>
                               /\ hist' = h
                               /\ UNCHANGED last_run_time
  /\ UNCHANGED << call, config, start_time, end_time, state_file, cycles, restarts >>

\* splunk_hec.py:172-192: one turn of the chunk loop of send_events_batch.
\* The POST takes d seconds; the sink confirms the chunk ("Success"), or
\* send_events raises SplunkHECError (chunk skipped), or it raises something
\* else, which leaves send_events_batch and forward_logs.
SendChunk ==
  /\ pc = "send"
  /\ \E d \in Durations, outcome \in {"Success", "SplunkHECError", "Exception"} :
       LET batch == Slice(logs, i, i + BatchSize)
           posted == [hist EXCEPT !.resent = @ \/ (Range(batch) \cap hist.sinkOk # {})]
           sent == IF outcome = "Success"
                   THEN successfully_sent_events \o batch
                   ELSE successfully_sent_events
           last == i + BatchSize >= Len(logs)
       IN /\ now' = now + d
          /\ IF outcome = "Exception"
             THEN EndCycle("Exception", now', posted)
             ELSE /\ successfully_sent_events' = sent
                  /\ i' = i + BatchSize
                  /\ pc' = IF last THEN "mark" ELSE "send"
                  /\ hist' = [posted EXCEPT
                                !.sinkOk = IF outcome = "Success"
                                           THEN @ \cup Range(batch) ELSE @,
                                !.failedCur = IF outcome = "Success"
                                              THEN @ ELSE @ \cup Range(batch),
                                !.anyFail = @ \/ outcome # "Success",
                                !.returned = IF last THEN @ \cup Range(sent) ELSE @]
                  /\ UNCHANGED << last_run_time, logs >>
  /\ UNCHANGED << call, config, start_time, end_time, seen_events, state_file, cycles, restarts >>

\* forward_logs passing the filtered input instead of the accepted events
MarkSentArgumentAll(filtered, accepted) == filtered

\* main.py:120-121: what forward_logs hands to mark_events_as_sent
MarkSentArgument(filtered, accepted) == accepted

\* main.py:119-124 with deduplicator.py:220-247 and 135-162: mark the
\* accepted events at the current time, write the state file (d seconds;
\* a failed write is logged and swallowed), return sent_count.
MarkSent ==
  /\ pc = "mark"
  /\ LET events == MarkSentArgument(logs, successfully_sent_events) IN
     IF enable_dedup /\ events # <<>>
     THEN \E d \in Durations, saved \in BOOLEAN :
            /\ seen_events' = MarkedRecords(seen_events, events, now)
            /\ state_file' = IF saved THEN <<seen_events'>> ELSE state_file
            /\ now' = now + d
            /\ EndCycle("none", now', [hist EXCEPT !.saveFailed = @ \/ ~saved])
     ELSE /\ EndCycle("none", now, hist)
          /\ UNCHANGED << now, seen_events, state_file >>
  /\ UNCHANGED << call, config, start_time, end_time, cycles, restarts >>

\* main.py:334-335: time.sleep(interval), taken to last exactly the
\* interval, then the next turn of the loop
Sleep ==
  /\ pc = "sleep"
  /\ now' = now + interval
  /\ pc' = "top"
  /\ UNCHANGED << call, config, last_run_time, start_time, end_time, logs, i,
                  successfully_sent_events, seen_events, state_file, cycles,
                  restarts, hist >>

\* main.py:295-335: where a KeyboardInterrupt delivered at position p takes
\* the daemon.  The try block spans lines 296-324; the sleep is outside it.
InterruptAt(p) ==
  IF p = "sleep" THEN "raised" ELSE DaemonHandler("KeyboardInterrupt")

\* the environment delivers a stop signal (KeyboardInterrupt)
Interrupt ==
  /\ pc \in Running
  /\ pc' = InterruptAt(pc)
  /\ logs' = <<>>
  /\ i' = 0
  /\ successfully_sent_events' = <<>>
  /\ hist' = [hist EXCEPT !.stopSignal = TRUE]
  /\ UNCHANGED << now, call, config, last_run_time, start_time, end_time, seen_events,
                  state_file, cycles, restarts >>

\* the process ends (killed, or after the daemon function was left) and
\* the daemon command is started again down seconds later:
\* main.py:268-293 with deduplicator.py:24-53 and 105-133
Restart ==
  /\ restarts < MaxRestarts
  /\ restarts' = restarts + 1
  /\ \E down \in Downtimes :
       /\ now' = now + down
       /\ seen_events' = _load_state(state_file, enable_dedup, window, now')
  /\ pc' = "top"
  /\ last_run_time' = <<>>
  /\ logs' = <<>>
  /\ i' = 0
  /\ successfully_sent_events' = <<>>
  /\ hist' = [hist EXCEPT !.exc = "-", !.failedCur = {}, !.failedPrev = {},
                          !.cycleInRun = 0, !.prevDur = <<>>, !.stopSignal = FALSE,
                          !.truncCur = FALSE, !.truncPrev = FALSE]
  /\ UNCHANGED << call, config, start_time, end_time, state_file, cycles >>

Next ==
  \/ CycleStart
  \/ Fetch
  \/ SendChunk
  \/ MarkSent
  \/ Sleep
  \/ Interrupt
  \/ Restart

Spec == Init /\ [][Next]_vars

(***************************************************************************)
(* Properties                                                              *)
(***************************************************************************)
Hash(E) == {_generate_event_hash(e) : e \in E}

InWindow(e) == start_time <= Created(e) /\ Created(e) < end_time

\* the step ends the current cycle (forward_logs returned or raised)
CycleEnded == hist'.ended = hist.ended + 1

\* dedup on, no restart, no cycle raised, no chunk failed so far
Clean == enable_dedup /\ restarts = 0 /\ ~hist.anyRaise /\ ~hist.anyFail

\* C1: every fingerprint recorded by the Deduplication Store, in memory or
\* in the state file, is the fingerprint of an event that was in the
\* accepted_events returned by an earlier send_batch call.
C1_MarkedOnlyIfAccepted ==
  /\ DOMAIN seen_events \subseteq Hash(hist.returned)
  /\ state_file # <<>> => DOMAIN state_file[1] \subseteq Hash(hist.returned)

\* C1 witness: a cycle with a failed chunk and an accepted chunk has
\* returned; the store holds records and none for the failed chunk.
C1_Witness ==
  /\ pc = "sleep"
  /\ hist.exc = "none"
  /\ hist.failedPrev # {}
  /\ seen_events # EmptyMap
  /\ state_file # <<>>
  /\ Hash(hist.failedPrev) \cap DOMAIN seen_events = {}

\* C2 (as claimed): when the next cycle of the daemon has computed its
\* window, that window contains every event of a chunk that failed in the
\* previous cycle (a cycle whose forward call returned).
C2_FailedChunkRefetched ==
  (pc = "fetch" /\ hist.cycleInRun > 1 /\ hist.exc = "none")
     => \A e \in hist.failedPrev : InWindow(e)

C4_AcceptedNeverResent ==
  (enable_dedup /\ ~hist.saveFailed) => ~hist.resent

\* C5: the step that ends a cycle sets the watermark to the cycle's end
\* time if forward_logs returned and leaves it unchanged if it raised; no
\* other step of the process changes the watermark.
C5_WatermarkIffReturned ==
  [][ /\ CycleEnded =>
           IF hist'.exc = "none"
           THEN last_run_time' = <<end_time>>
           ELSE last_run_time' = last_run_time
      /\ (~CycleEnded /\ restarts' = restarts) => last_run_time' = last_run_time
    ]_vars

\* C5 witness: a cycle has raised after an earlier cycle returned, and the
\* watermark is still the earlier cycle's end.
C5_Witness ==
  /\ pc = "sleep"
  /\ hist.exc \notin {"none", "-"}
  /\ last_run_time # <<>>
  /\ last_run_time[1] < hist.prevEnd

\* C6 (as claimed): the cycle after a cycle that raised has the same window
\* start as that cycle.
C6_SameStartAfterRaise ==
  (pc = "fetch" /\ hist.cycleInRun > 1 /\ hist.exc \notin {"none", "-"})
     => start_time = hist.prevStart

\* C7 (as claimed): every cycle after the first of a daemon run starts its
\* window no later than the previous window's end minus the overlap.
C7_StartWithinOverlap ==
  (pc = "fetch" /\ hist.cycleInRun > 1)
     => start_time <= hist.prevEnd - Overlap

\* C8 (as claimed): the first window after a restart starts no later than
\* the end of the last window whose cycle completed before the restart.
C8_NoGapAcrossRestart ==
  (pc = "fetch" /\ restarts > 0 /\ hist.cycleInRun = 1 /\ hist.lastOkEnd # <<>>)
     => start_time <= hist.lastOkEnd[1]

\* C8 (amended): it does so when the first cycle after the restart begins
\* at most lookback seconds after that end.
C8_NoGapIfDownWithinLookback ==
  (/\ pc = "fetch" /\ restarts > 0 /\ hist.cycleInRun = 1
   /\ hist.lastOkEnd # <<>>
   /\ end_time - hist.lastOkEnd[1] <= lookback)
     => start_time <= hist.lastOkEnd[1]

\* C8 witness: the first cycle after a restart has its window, later than
\* and within lookback of the last completed window's end.
C8_Witness ==
  /\ pc = "fetch" /\ restarts > 0 /\ hist.cycleInRun = 1
  /\ hist.lastOkEnd # <<>>
  /\ end_time > hist.lastOkEnd[1]
  /\ end_time - hist.lastOkEnd[1] <= lookback

\* C9: a cycle that raises takes the daemon to its sleep; the sleep lasts
\* the interval and leads to the top of the loop; the daemon function is
\* left only by a step that delivers a stop signal.
C9_FailedCycleKeepsLooping ==
  [][ /\ (CycleEnded /\ hist'.exc # "none") => pc' = "sleep"
      /\ (pc = "sleep" /\ restarts' = restarts /\ ~hist'.stopSignal)
            => (pc' = "top" /\ now' = now + interval)
      /\ (pc \in Running /\ pc' \in Exited)
            => (~hist.stopSignal /\ hist'.stopSignal)
    ]_vars

\* C9 witness: a cycle ended by an unexpected exception, the daemon slept
\* and the next cycle of the same process is under way.
C9_Witness ==
  /\ pc = "fetch"
  /\ hist.cycleInRun = 2
  /\ hist.exc = "Exception"
  /\ end_time >= hist.prevEnd + interval

\* C10 (as claimed): once a stop signal has been delivered the daemon
\* function has ended by leaving its loop, not by an exception.
C10_StopNeverRaises ==
  hist.stopSignal => pc = "stopped"


\* C36: the step in which the fetch of a cycle is cut short by an
\* unexpected exception raises nothing: the cycle goes on to the sink with
\* the events fetched, or returns at once when none of them is left to
\* send.  When such a cycle has returned, the watermark is the end of its
\* window, and the window of the next cycle starts 30 seconds before it.
C36_TruncatedCycleAdvancesWatermark ==
  [][ /\ (pc = "fetch" /\ hist'.truncCur) => pc' = "send"
      /\ (pc = "fetch" /\ hist'.truncPrev /\ hist'.ended = hist.ended + 1) =>
           /\ hist'.exc = "none"
           /\ pc' = "sleep"
      /\ (hist'.truncPrev /\ hist'.exc = "none") =>
           /\ last_run_time' = << hist'.prevEnd >>
           /\ pc' \in InCycle => start_time' = hist'.prevEnd - Overlap
    ]_vars

\* C36 witness: the cycle after one whose fetch was cut short and which
\* returned is under way; an event of the earlier window that was not
\* fetched is older than the start of the new window.
C36_Witness ==
  /\ hist.truncPrev
  /\ hist.exc = "none"
  /\ pc \in InCycle
  /\ start_time = hist.prevEnd - Overlap
  /\ \E e \in EventIds :
       /\ hist.prevStart <= Created(e) /\ Created(e) < hist.prevEnd
       /\ e \notin hist.sinkOk
       /\ Created(e) < start_time

(***************************************************************************)
(* SplunkHECClient.send_events_batch on its own (splunk_hec.py:98-192)     *)
(*                                                                         *)
(* SpecSend is one call of send_events_batch(log_entries, batch_size) on   *)
(* any input list and batch size, the sink answering every POST with any   *)
(* of SinkResponses.  `call` holds the arguments, the locals of the        *)
(* function, its result and, as history, the POSTs made.                   *)
(***************************************************************************)
\* longest input list
MaxInput == 3
\* largest batch size
MaxBatchSize == 3

InputLists == UNION {[1 .. n -> EventIds] : n \in 0 .. MaxInput}

\* What the session's POST ends with, after the adapter's own retries.
\* status 0: no response (connection error, timeout, retries exhausted);
\* body: <<"object", text>> a JSON object with that text field,
\*       <<"object">> a JSON object without text field,
\*       <<"null">> JSON that is not an object, <<"html">> not JSON.
SinkResponses ==
  { [status |-> 0,   body |-> <<>>],
    [status |-> 503, body |-> <<"object", "Server is busy">>],
    [status |-> 200, body |-> <<"object", "Success">>],
    [status |-> 200, body |-> <<"object", "Invalid data format">>],
    [status |-> 200, body |-> <<"null">>],
    [status |-> 200, body |-> <<"html">>] }

\* a send_events that takes every 2xx response for a confirmation
send_events_any_2xx(batch, response) ==
  IF batch = <<>> THEN "True"
  ELSE IF response.status = 0 \/ response.status >= 400 THEN "SplunkHECError"
  ELSE "True"

\* splunk_hec.py:98-149: True, or the exception that leaves send_events.
\* RequestException (no response; raise_for_status on an error status;
\* response.json() on a body that is not JSON) becomes SplunkHECError;
\* .get on JSON that is not an object raises AttributeError, which no
\* handler of send_events catches.
send_events(batch, response) ==
  IF batch = <<>> THEN "True"
  ELSE IF response.status = 0 THEN "SplunkHECError"
  ELSE IF response.status >= 400 THEN "SplunkHECError"
  ELSE IF response.body[1] = "html" THEN "SplunkHECError"
  ELSE IF response.body[1] # "object" THEN "AttributeError"
  ELSE IF Len(response.body) = 2 /\ response.body[2] = "Success" THEN "True"
  ELSE "SplunkHECError"

daemonVars == << now, interval, lookback, dedup_buffer_seconds, enable_dedup, pc,
                 last_run_time, start_time, end_time, logs, i,
                 successfully_sent_events, seen_events, state_file, cycles,
                 restarts, hist >>

\* no daemon is running: its variables at their values before the loop
NoDaemon ==
  /\ now = StartTime
  /\ interval = DefaultInterval
  /\ lookback = DefaultLookback
  /\ dedup_buffer_seconds = DefaultBuffer
  /\ enable_dedup = TRUE
  /\ pc = "top"
  /\ last_run_time = <<>>
  /\ start_time = 0
  /\ end_time = 0
  /\ logs = <<>>
  /\ i = 0
  /\ successfully_sent_events = <<>>
  /\ seen_events = EmptyMap
  /\ state_file = <<>>
  /\ cycles = 0
  /\ restarts = 0
  /\ hist = InitHist

\* splunk_hec.py:151-170: the call is entered
InitSend ==
  /\ NoDaemon
  /\ \E l \in InputLists, b \in 1 .. MaxBatchSize :
       call = [op |-> "send_events_batch", log_entries |-> l, batch_size |-> b,
               i |-> 0, total_sent |-> 0, successfully_sent_events |-> <<>>,
               pc |-> "loop", posts |-> <<>>, result |-> <<>>, exc |-> "none"]

\* splunk_hec.py:172-189: one turn of the loop over range(0, len, batch_size)
BatchPost ==
  /\ call.pc = "loop"
  /\ call.i < Len(call.log_entries)
  /\ \E response \in SinkResponses :
       LET batch == Slice(call.log_entries, call.i, call.i + call.batch_size)
           outcome == send_events(batch, response)
           posted == [call EXCEPT !.posts = Append(@, [batch |-> batch,
                                                        response |-> response])]
       IN call' =
            IF outcome = "True"
            THEN [posted EXCEPT !.total_sent = @ + Len(batch),
                                !.successfully_sent_events = @ \o batch,
                                !.i = @ + call.batch_size]
            ELSE IF outcome = "SplunkHECError"
            THEN [posted EXCEPT !.i = @ + call.batch_size]
            ELSE [posted EXCEPT !.pc = "raised", !.exc = outcome]
  /\ UNCHANGED daemonVars

\* splunk_hec.py:165-166 (empty input) and 191-192 (loop exhausted)
BatchReturn ==
  /\ call.pc = "loop"
  /\ call.i >= Len(call.log_entries)
  /\ call' = [call EXCEPT !.pc = "returned",
                          !.result = << call.total_sent,
                                        call.successfully_sent_events >>]
  /\ UNCHANGED daemonVars

NextSend ==
  \/ BatchPost
  \/ BatchReturn

SpecSend == InitSend /\ [][NextSend]_vars

RECURSIVE Concat(_)
\* the sequences of a sequence, joined in order
Concat(ss) == IF ss = <<>> THEN <<>> ELSE Head(ss) \o Concat(Tail(ss))

\* ceil(n / b)
CeilDiv(n, b) == (n + b - 1) \div b

\* chunk k (from 1) of list l cut into chunks of b events
ChunkOf(l, b, k) == SubSeq(l, (k - 1) * b + 1, Min(k * b, Len(l)))

\* the sink confirmed the POST: a 2xx response whose body is a JSON object
\* with text "Success"
Confirmed(p) ==
  /\ p.response.status >= 200 /\ p.response.status < 300
  /\ p.response.body = <<"object", "Success">>

\* the chunks of the POSTs the sink confirmed, joined in the order posted
ConfirmedEvents(posts) ==
  Concat([k \in 1 .. Len(posts) |->
            IF Confirmed(posts[k]) THEN posts[k].batch ELSE <<>>])

\* C11 (as claimed): whatever the sink answers, the call ends by returning;
\* by then every chunk of the input has been posted exactly once, in order;
\* accepted_events is the chunks of the confirmed POSTs joined in input
\* order and accepted_count is its length.
C11_EveryChunkPostedNoRaise ==
  (call.op = "send_events_batch" /\ call.pc # "loop") =>
     /\ call.pc = "returned"
     /\ Len(call.posts) = CeilDiv(Len(call.log_entries), call.batch_size)
     /\ \A k \in 1 .. Len(call.posts) :
          call.posts[k].batch = ChunkOf(call.log_entries, call.batch_size, k)
     /\ call.result[2] = ConfirmedEvents(call.posts)
     /\ call.result[1] = Len(call.result[2])

\* C12: the k-th POST of a call carries chunk k of the input: events
\* (k-1)*b+1 .. min(k*b, n); a call that returns has made ceil(n/b) POSTs,
\* all but the last of b events, the last of n - b*(ceil(n/b)-1), the
\* chunks joined being the input; on the empty input it makes no POST and
\* returns (0, []).
C12_ChunksPartitionInput ==
  call.op = "send_events_batch" =>
    LET n == Len(call.log_entries)
        b == call.batch_size
        c == CeilDiv(n, b)
    IN /\ \A k \in 1 .. Len(call.posts) :
            /\ call.posts[k].batch = ChunkOf(call.log_entries, b, k)
            /\ k < c => Len(call.posts[k].batch) = b
            /\ k = c => Len(call.posts[k].batch) = n - b * (c - 1)
       /\ Len(call.posts) <= c
       /\ call.pc = "returned" =>
            /\ Len(call.posts) = c
            /\ Concat([k \in 1 .. c |-> call.posts[k].batch]) = call.log_entries
            /\ n = 0 => call.result = << 0, <<>> >>

\* C12 witness: a call has returned after more than one POST, the last
\* chunk shorter than the batch size.
C12_Witness ==
  /\ call.op = "send_events_batch"
  /\ call.pc = "returned"
  /\ call.batch_size > 1
  /\ Len(call.posts) > 1
  /\ Len(call.posts[Len(call.posts)].batch) < call.batch_size


(***************************************************************************)
(* LogForwarder.forward_logs on its own (main.py:64-134)                   *)
(*                                                                         *)
(* SpecForward is one call of forward_logs(start_time, end_time, dry_run)  *)
(* by a forwarder with or without a deduplicator, whose store may hold     *)
(* records of earlier calls: the paginated fetch page by page, the filter, *)
(* send_events_batch (BatchPost, BatchReturn above) and the marking.       *)
(* The clock does not move during the call.                                *)
(***************************************************************************)
\* age in seconds of a record that is within the tracking window
FreshAge == 10
\* age in seconds of a record that has left the tracking window
ExpiredAge == 500
\* windows the call is made with: all source events, the last one, none
SinceAll == 600
SinceLast == 8
SinceNone == 3

ForwardWindows == {StartTime - SinceAll, StartTime - SinceLast, StartTime - SinceNone}

\* records made for the events E at time t
StoredAt(E, t) == [h \in {_generate_event_hash(e) : e \in E} |-> t]

\* record mappings left by earlier calls
StoreStates ==
  { EmptyMap,
    StoredAt(EventIds, StartTime - FreshAge),
    StoredAt({Len(SourceEvents)}, StartTime - FreshAge),
    StoredAt({1}, StartTime - ExpiredAge) @@ StoredAt({Len(SourceEvents)}, StartTime - FreshAge) }

\* crusoe_client.py:206-218 as the pagination sees it: the events the source
\* API lists for the window; with repeated set, the listing holds its last
\* event a second time
Listed(s, e, repeated) ==
  LET found == EventsInWindow(s, e)
  IN IF repeated /\ found # <<>> THEN found \o << found[Len(found)] >> ELSE found

\* a pagination that lets every exception out
PaginationHandlerRaise(exception) == "raise"

\* a pagination that swallows the source API error like any other exception
PaginationHandlerBreak(exception) == "break"

\* crusoe_client.py:270-275: what the pagination loop does with an exception
PaginationHandler(exception) ==
  IF exception = "CrusoeAPIError" THEN "raise" ELSE "break"

\* main.py:64-82: the call is entered
InitForward ==
  /\ now = StartTime
  /\ interval = DefaultInterval
  /\ lookback = DefaultLookback
  /\ dedup_buffer_seconds = DefaultBuffer
  /\ enable_dedup \in BOOLEAN
  /\ pc = "top"
  /\ last_run_time = <<>>
  /\ start_time \in ForwardWindows
  /\ end_time = StartTime
  /\ logs = <<>>
  /\ i = 0
  /\ successfully_sent_events = <<>>
  /\ seen_events \in StoreStates
  /\ state_file = IF seen_events = EmptyMap THEN <<>> ELSE <<seen_events>>
  /\ cycles = 0
  /\ restarts = 0
  /\ hist = InitHist
  /\ \E d \in BOOLEAN, dry \in BOOLEAN, twice \in BOOLEAN :
       call = [op |-> "forward_logs", has_deduplicator |-> d, dry_run |-> dry,
               repeated |-> twice, pc |-> "fetch", all_logs |-> <<>>, offset |-> 0, page_count |-> 0,
               log_entries |-> <<>>, batch_size |-> BatchSize,
               i |-> 0, total_sent |-> 0, successfully_sent_events |-> <<>>,
               posts |-> <<>>, result |-> <<>>, exc |-> "none",
               filtered |-> FALSE, marked |-> <<>>, sent_count |-> <<>>,
               api_error |-> FALSE, save_failed |-> FALSE,
               seen0 |-> seen_events, file0 |-> state_file]

\* crusoe_client.py:242-275: one turn of the pagination loop: the request
\* for the page at the offset ends with the page, with a source API error
\* or with an unexpected exception
ForwardFetchPage ==
  /\ call.op = "forward_logs"
  /\ call.pc = "fetch"
  /\ \E outcome \in {"page", "CrusoeAPIError", "Exception"} :
       LET page == Slice(Listed(start_time, end_time, call.repeated),
                         call.offset, call.offset + call.batch_size)
       IN call' =
            IF outcome = "page"
            THEN IF page = <<>>
                 THEN [call EXCEPT !.pc = "filter"]
                 ELSE [call EXCEPT !.all_logs = @ \o page,
                                   !.offset = @ + Len(page),
                                   !.page_count = @ + 1,
                                   !.pc = IF Len(page) < call.batch_size
                                          THEN "filter" ELSE "fetch"]
            ELSE LET failed == [call EXCEPT !.api_error =
                                                 @ \/ outcome = "CrusoeAPIError"]
                 IN IF PaginationHandler(outcome) = "raise"
                    THEN [failed EXCEPT !.pc = "raised", !.exc = outcome]
                    ELSE [failed EXCEPT !.pc = "filter"]
  /\ UNCHANGED daemonVars

\* main.py:89-117: the fetch has returned; empty results, the duplicate
\* filter (with the purge every is_duplicate does first), dry run, and the
\* arguments of send_events_batch
ForwardFilter ==
  /\ call.op = "forward_logs"
  /\ call.pc = "filter"
  /\ IF call.all_logs = <<>>
     THEN /\ call' = [call EXCEPT !.pc = "done", !.sent_count = <<0>>]
          /\ UNCHANGED seen_events
     ELSE LET purged == IF call.has_deduplicator
                        THEN _cleanup_old_entries(seen_events, enable_dedup, window, now)
                        ELSE seen_events
              unique == IF call.has_deduplicator
                        THEN filter_duplicates(purged, enable_dedup, call.all_logs)
                        ELSE call.all_logs
              entered == [call EXCEPT !.filtered = TRUE, !.log_entries = unique]
          IN /\ seen_events' = purged
             /\ call' =
                  IF unique = <<>>
                  THEN [entered EXCEPT !.pc = "done", !.sent_count = <<0>>]
                  ELSE IF call.dry_run
                  THEN [entered EXCEPT !.pc = "done", !.sent_count = <<Len(unique)>>]
                  ELSE [entered EXCEPT !.pc = "loop"]
  /\ UNCHANGED << now, config, pc, last_run_time, start_time, end_time, logs, i,
                  successfully_sent_events, state_file, cycles, restarts, hist >>

\* a _save_state that lets the exception of a failed write out
SaveStateHandlerRaise(outcome) ==
  IF outcome = "written" THEN "return" ELSE "raise"

\* deduplicator.py:140-162: how _save_state ends: the file is written, or
\* the exception of the failed write is caught and logged
SaveStateHandler(outcome) ==
  IF outcome = "written" THEN "return" ELSE "log"

\* main.py:119-124 with deduplicator.py:220-247 and 135-162:
\* send_events_batch has returned; mark the accepted events, write the
\* state file (a failed write is logged and swallowed), return sent_count
\*   save_failed   as history: the write of the state file has failed
ForwardMark ==
  /\ call.op = "forward_logs"
  /\ call.pc = "returned"
  /\ LET events == MarkSentArgument(call.log_entries, call.result[2])
         done == [call EXCEPT !.pc = "done", !.sent_count = <<call.result[1]>>]
     IN IF call.has_deduplicator /\ events # <<>>
        THEN IF enable_dedup
             THEN \E outcome \in {"written", "Exception"} :
                    /\ seen_events' = MarkedRecords(seen_events, events, now)
                    /\ state_file' = IF outcome = "written"
                                     THEN <<seen_events'>> ELSE state_file
                    /\ call' =
                         IF SaveStateHandler(outcome) = "raise"
                         THEN [call EXCEPT !.pc = "raised", !.exc = outcome,
                                           !.marked = <<events>>,
                                           !.save_failed = TRUE]
                         ELSE [done EXCEPT !.marked = <<events>>,
                                           !.save_failed = outcome # "written"]
             ELSE /\ call' = [done EXCEPT !.marked = <<events>>]
                  /\ UNCHANGED << seen_events, state_file >>
        ELSE /\ call' = done
             /\ UNCHANGED << seen_events, state_file >>
  /\ UNCHANGED << now, config, pc, last_run_time, start_time, end_time, logs, i,
                  successfully_sent_events, cycles, restarts, hist >>

NextForward ==
  \/ ForwardFetchPage
  \/ ForwardFilter
  \/ BatchPost
  \/ BatchReturn
  \/ ForwardMark

SpecForward == InitForward /\ [][NextForward]_vars


\* events handed to mark_events_as_sent by the call (none if not called)
MarkedCount == IF call.marked = <<>> THEN 0 ELSE Len(call.marked[1])

\* every fetched event has a record within the tracking window
AllDuplicates ==
  /\ call.has_deduplicator
  /\ enable_dedup
  /\ \A e \in Range(call.all_logs) :
       _generate_event_hash(e) \in
          DOMAIN _cleanup_old_entries(call.seen0, TRUE, window, now)

\* C13: at every point of a forward call, the accepted events and their
\* count are the chunks of the POSTs answered 2xx with a JSON object whose
\* text is "Success"; the events handed to mark_sent are these, and the
\* store holds no record beyond those it had and those of these events.
C13_AcceptedOnlyIfSuccessBody ==
  call.op = "forward_logs" =>
    /\ call.successfully_sent_events = ConfirmedEvents(call.posts)
    /\ call.total_sent = Len(ConfirmedEvents(call.posts))
    /\ call.marked # <<>> => call.marked[1] = ConfirmedEvents(call.posts)
    /\ DOMAIN seen_events \subseteq
         DOMAIN call.seen0 \cup Hash(Range(ConfirmedEvents(call.posts)))

\* C13 witness: a forward call has returned after a chunk answered 200
\* with another text and a chunk answered 200 "Success"; the events of the
\* first are neither accepted nor recorded, those of the second are both.
C13_Witness ==
  /\ call.op = "forward_logs"
  /\ call.pc = "done"
  /\ call.has_deduplicator /\ enable_dedup
  /\ call.seen0 = EmptyMap
  /\ \E k \in 1 .. Len(call.posts) :
       /\ call.posts[k].response.status = 200
       /\ call.posts[k].response.body = <<"object", "Invalid data format">>
       /\ Range(call.posts[k].batch) \cap Range(call.result[2]) = {}
       /\ Hash(Range(call.posts[k].batch)) \cap DOMAIN seen_events = {}
  /\ call.result[2] # <<>>
  /\ Hash(Range(call.result[2])) = DOMAIN seen_events

\* C14: once a page request of the fetch has ended with a source API error,
\* the forward call has raised that error; it has made no POST, has not
\* called mark_sent, and the store, in memory and on disk, is as it was
\* when the call began.
C14_FetchErrorAbortsForward ==
  (call.op = "forward_logs" /\ call.api_error) =>
    /\ call.pc = "raised"
    /\ call.exc = "CrusoeAPIError"
    /\ call.posts = <<>>
    /\ call.marked = <<>>
    /\ call.sent_count = <<>>
    /\ seen_events = call.seen0
    /\ state_file = call.file0

\* C14 witness: the error came on a later page, after a full page of
\* events that are no duplicates had been fetched.
C14_Witness ==
  /\ call.op = "forward_logs"
  /\ call.api_error
  /\ call.pc = "raised"
  /\ call.page_count > 0
  /\ call.all_logs # <<>>
  /\ ~AllDuplicates

\* C15 (as claimed): a forward call that has left send_batch with a chunk
\* not confirmed has returned; the value returned is the number of events
\* of the confirmed chunks, is the number of events handed to mark_sent
\* when there is a deduplicator, and is at most the number of events left
\* by the filter.
C15_DeliveryFailureNeverRaises ==
  (/\ call.op = "forward_logs"
   /\ call.pc \in {"done", "raised"}
   /\ \E k \in 1 .. Len(call.posts) : ~Confirmed(call.posts[k])) =>
    /\ call.pc = "done"
    /\ call.sent_count = << Len(ConfirmedEvents(call.posts)) >>
    /\ call.has_deduplicator => MarkedCount = call.sent_count[1]
    /\ call.sent_count[1] <= Len(call.log_entries)

\* C16: a forward call whose fetch returned no event, or only events that
\* have a record within the tracking window, has returned 0, has made no
\* POST and has not called mark_sent.
C16_NothingToSendReturnsZero ==
  (/\ call.op = "forward_logs"
   /\ call.pc \notin {"fetch", "filter"}
   /\ ~call.api_error
   /\ (call.all_logs = <<>> \/ AllDuplicates)) =>
    /\ call.pc = "done"
    /\ call.sent_count = <<0>>
    /\ call.posts = <<>>
    /\ call.marked = <<>>

\* C16 witness: the fetch returned events and the filter left none.
C16_Witness ==
  /\ call.op = "forward_logs"
  /\ call.pc = "done"
  /\ call.all_logs # <<>>
  /\ call.filtered
  /\ call.log_entries = <<>>
  /\ AllDuplicates

\* C24: once the write of the state file has failed in mark_sent, the
\* forward call has returned, without an exception, the number of accepted
\* events; the state file is as it was, every event handed to mark_sent has
\* its record in memory, made at the time of the call, and is_duplicate
\* returns true for it at every later time at which the record is younger
\* than the tracking window.
C24_FailedSaveKeepsMemory ==
  (call.op = "forward_logs" /\ call.save_failed) =>
    /\ call.pc = "done"
    /\ call.exc = "none"
    /\ call.sent_count = << Len(ConfirmedEvents(call.posts)) >>
    /\ state_file = call.file0
    /\ \A e \in Range(call.marked[1]) :
         /\ _generate_event_hash(e) \in DOMAIN seen_events
         /\ seen_events[_generate_event_hash(e)] = now
         /\ \A t \in now .. now + window - 1 :
              is_duplicate(_cleanup_old_entries(seen_events, TRUE, window, t),
                           TRUE, e)

\* C24 witness: the write failed when there was no state file yet; the
\* call has returned a positive count and the accepted events are recorded
\* in memory only.
C24_Witness ==
  /\ call.op = "forward_logs"
  /\ call.save_failed
  /\ call.pc = "done"
  /\ call.sent_count # <<>> /\ call.sent_count[1] > 0
  /\ state_file = <<>>
  /\ Hash(Range(call.marked[1])) \subseteq DOMAIN seen_events

\* positions of a list holding an event with the fingerprint h
Occurrences(events, h) ==
  { k \in 1 .. Len(events) : _generate_event_hash(events[k]) = h }

\* the events of the POSTs of the call so far, in the order sent
PostedEvents == Concat([k \in 1 .. Len(call.posts) |-> call.posts[k].batch])

\* the records of the store when the call was entered, purged as the
\* filter purges them
PurgedAtEntry == _cleanup_old_entries(call.seen0, enable_dedup, window, now)

\* C37: the filter of an enabled store compares each fetched event with
\* the store only: a fingerprint without a record keeps every one of its
\* events in the output, however many events of the fetched list share it;
\* once send_events_batch has returned, each of them was sent to the sink
\* in this call; and after mark_events_as_sent the store holds for each
\* newly marked fingerprint the one record of the time of the call.
C37_NoDedupWithinOneInput ==
  (/\ call.op = "forward_logs"
   /\ call.filtered
   /\ call.has_deduplicator
   /\ enable_dedup) =>
    /\ \A h \in Hash(Range(call.all_logs)) \ DOMAIN PurgedAtEntry :
         /\ Cardinality(Occurrences(call.log_entries, h)) =
              Cardinality(Occurrences(call.all_logs, h))
         /\ call.pc \in {"returned", "done"} /\ ~call.dry_run =>
              Cardinality(Occurrences(PostedEvents, h)) =
                Cardinality(Occurrences(call.all_logs, h))
    /\ \A h \in DOMAIN PurgedAtEntry : Occurrences(call.log_entries, h) = {}
    /\ call.marked # <<>> =>
         /\ DOMAIN seen_events = DOMAIN PurgedAtEntry \cup Hash(Range(call.marked[1]))
         /\ \A h \in Hash(Range(call.marked[1])) : seen_events[h] = now

\* C37 witness: two events of the fetched list share a fingerprint that had
\* no record; both were sent in one call and accepted, and the store has
\* fewer new records than events were marked.
C37_Witness ==
  /\ call.op = "forward_logs"
  /\ call.has_deduplicator
  /\ enable_dedup
  /\ call.pc = "done"
  /\ call.marked # <<>>
  /\ \E h \in Hash(Range(call.marked[1])) :
       /\ h \notin DOMAIN PurgedAtEntry
       /\ Cardinality(Occurrences(call.all_logs, h)) = 2
       /\ Cardinality(Occurrences(call.marked[1], h)) = 2
       /\ Cardinality(Occurrences(PostedEvents, h)) = 2
  /\ Cardinality(DOMAIN seen_events \ DOMAIN PurgedAtEntry) < Len(call.marked[1])

\* main.py:80-134 with splunk_hec.py:172-192: a KeyboardInterrupt delivered
\* while the call is in the fetch, in the filter, in the loop of
\* send_events_batch or between its return and mark_events_as_sent; no
\* except clause on the way (Exception, SplunkHECError, CrusoeAPIError)
\* catches it, so the call ends by raising it
ForwardInterrupt ==
  /\ call.op = "forward_logs"
  /\ call.pc \in {"fetch", "filter", "loop", "returned"}
  /\ call' = [call EXCEPT !.pc = "raised", !.exc = "KeyboardInterrupt"]
  /\ UNCHANGED daemonVars

NextForwardInterrupted ==
  \/ ForwardFetchPage
  \/ ForwardFilter
  \/ BatchPost
  \/ BatchReturn
  \/ ForwardMark
  \/ ForwardInterrupt

\* one forward_logs call that a stop signal may end
SpecForwardInterrupted == InitForward /\ [][NextForwardInterrupted]_vars

\* C38: when a forward call has ended by raising (source API error,
\* exception out of the sink client, interrupt before mark_events_as_sent),
\* mark_events_as_sent was not called, the store holds no record it did not
\* hold when the call was entered, no record has another time, and the
\* state file is the one of the entry.
C38_RaisedCallLeavesStoreAlone ==
  (call.op = "forward_logs" /\ call.pc = "raised") =>
    /\ call.marked = <<>>
    /\ DOMAIN seen_events \subseteq DOMAIN call.seen0
    /\ \A h \in DOMAIN seen_events : seen_events[h] = call.seen0[h]
    /\ state_file = call.file0

\* C38 witness: a call with an enabled store was interrupted after the sink
\* had confirmed a chunk whose events had no record.
C38_Witness ==
  /\ call.op = "forward_logs"
  /\ call.pc = "raised"
  /\ call.exc = "KeyboardInterrupt"
  /\ call.has_deduplicator
  /\ enable_dedup
  /\ ConfirmedEvents(call.posts) # <<>>
  /\ Hash(Range(ConfirmedEvents(call.posts))) \cap DOMAIN seen_events = {}
  /\ state_file = call.file0

\* the fetched events the filter of the call lets through
NonDuplicates ==
  IF call.has_deduplicator /\ enable_dedup
  THEN SelectSeq(call.all_logs,
                 LAMBDA e : _generate_event_hash(e) \notin DOMAIN PurgedAtEntry)
  ELSE call.all_logs

\* C39: as long as a forward call is a dry run or the sink has confirmed
\* no chunk of it, mark_events_as_sent has not been called, the store has
\* no record it did not have at the entry and the state file is the one of
\* the entry; mark_events_as_sent is called only after send_events_batch
\* has returned, with its non-empty list of accepted events, and the call
\* returns right after it; a dry run posts nothing and returns the number
\* of fetched events that are not duplicates.
C39_NothingAcceptedNothingRecorded ==
  call.op = "forward_logs" =>
    /\ (call.dry_run \/ ConfirmedEvents(call.posts) = <<>>) =>
         /\ call.marked = <<>>
         /\ DOMAIN seen_events \subseteq DOMAIN call.seen0
         /\ \A h \in DOMAIN seen_events : seen_events[h] = call.seen0[h]
         /\ state_file = call.file0
    /\ call.marked # <<>> =>
         /\ call.marked[1] # <<>>
         /\ call.result # <<>>
         /\ call.marked[1] = call.result[2]
         /\ call.pc = "done"
    /\ call.dry_run =>
         /\ call.posts = <<>>
         /\ call.result = <<>>
         /\ call.pc = "done" => call.sent_count = << Len(NonDuplicates) >>

\* C39 witness: a call with an enabled store has returned 0 after the sink
\* refused every chunk; events without a record were posted.
C39_Witness ==
  /\ call.op = "forward_logs"
  /\ call.has_deduplicator
  /\ enable_dedup
  /\ ~call.dry_run
  /\ call.pc = "done"
  /\ call.posts # <<>>
  /\ ConfirmedEvents(call.posts) = <<>>
  /\ call.sent_count = <<0>>
  /\ call.marked = <<>>
  /\ Hash(Range(call.log_entries)) \cap DOMAIN seen_events = {}
  /\ state_file = call.file0

\* a CLI group that attaches a deduplicator to the forwarder it builds
CliDeduplicatorAttached == TRUE

\* main.py:167 with 31-41: the forwarder the CLI group builds has a
\* deduplicator (only the daemon command attaches one later, main.py:282)
CliDeduplicator == FALSE

\* what a finished call leaves for the comparison with the next one
Finished == [all_logs |-> call.all_logs, posts |-> call.posts,
             sent_count |-> call.sent_count, seen |-> seen_events,
             file |-> state_file]

\* main.py:157-174 and 216-250: the forward-range command is run for a
\* window; whatever store a daemon has left on disk and in its memory is
\* not part of this process
InitOneShot ==
  /\ now = StartTime
  /\ interval = DefaultInterval
  /\ lookback = DefaultLookback
  /\ dedup_buffer_seconds = DefaultBuffer
  /\ enable_dedup = TRUE
  /\ pc = "top"
  /\ last_run_time = <<>>
  /\ start_time \in ForwardWindows
  /\ end_time = StartTime
  /\ logs = <<>>
  /\ i = 0
  /\ successfully_sent_events = <<>>
  /\ seen_events \in StoreStates
  /\ state_file = IF seen_events = EmptyMap THEN <<>> ELSE <<seen_events>>
  /\ cycles = 0
  /\ restarts = 0
  /\ hist = InitHist
  /\ \E dry \in BOOLEAN, twice \in BOOLEAN :
       call = [op |-> "forward_logs", has_deduplicator |-> CliDeduplicator,
               dry_run |-> dry, repeated |-> twice, pc |-> "fetch",
               all_logs |-> <<>>, offset |-> 0, page_count |-> 0,
               log_entries |-> <<>>, batch_size |-> BatchSize,
               i |-> 0, total_sent |-> 0, successfully_sent_events |-> <<>>,
               posts |-> <<>>, result |-> <<>>, exc |-> "none",
               filtered |-> FALSE, marked |-> <<>>, sent_count |-> <<>>,
               api_error |-> FALSE, save_failed |-> FALSE,
               seen0 |-> seen_events, file0 |-> state_file,
               first |-> <<>>]

\* main.py:157-174 and 216-250: the first command has returned and the
\* same command is run again for the same window
\*   first   as history: what the first call left
ForwardAgain ==
  /\ call.op = "forward_logs"
  /\ call.pc = "done"
  /\ call.first = <<>>
  /\ call' = [call EXCEPT !.has_deduplicator = CliDeduplicator,
                          !.pc = "fetch", !.all_logs = <<>>, !.offset = 0,
                          !.page_count = 0, !.log_entries = <<>>, !.i = 0,
                          !.total_sent = 0, !.successfully_sent_events = <<>>,
                          !.posts = <<>>, !.result = <<>>, !.exc = "none",
                          !.filtered = FALSE, !.marked = <<>>,
                          !.sent_count = <<>>, !.api_error = FALSE,
                          !.save_failed = FALSE, !.first = << Finished >>]
  /\ UNCHANGED daemonVars

NextOneShot ==
  \/ ForwardFetchPage
  \/ ForwardFilter
  \/ BatchPost
  \/ BatchReturn
  \/ ForwardMark
  \/ ForwardAgain

\* two runs of a one-shot forward command over one window
SpecOneShot == InitOneShot /\ [][NextOneShot]_vars

\* the sink confirmed every POST
AllConfirmed(posts) == \A k \in 1 .. Len(posts) : Confirmed(posts[k])

\* the events of a sequence of POSTs, in the order sent
Posted(posts) == Concat([k \in 1 .. Len(posts) |-> posts[k].batch])

\* how often the event e is in the list
Count(events, e) == Cardinality({ k \in 1 .. Len(events) : events[k] = e })

\* C40: a forwarder the CLI builds for a one-shot command has no
\* deduplicator: its calls leave the store and the state file as they are
\* and hand every fetched event to the sink client, whatever records
\* exist; when it has returned from a complete fetch with every POST
\* confirmed, it has posted the whole listing of the window and returns
\* its length, and after two such calls over the same window every event
\* was posted twice as often as the source lists it.
C40_OneShotForwardsEverything ==
  call.op = "forward_logs" =>
    LET listing == Listed(start_time, end_time, call.repeated)
        Full(all, posts) == all = listing /\ AllConfirmed(posts)
    IN /\ seen_events = call.seen0
       /\ state_file = call.file0
       /\ call.marked = <<>>
       /\ call.filtered => call.log_entries = call.all_logs
       /\ (call.pc = "done" /\ ~call.dry_run /\ Full(call.all_logs, call.posts)) =>
            /\ Posted(call.posts) = listing
            /\ call.sent_count = << Len(listing) >>
       /\ call.first # <<>> =>
            /\ call.first[1].seen = seen_events
            /\ call.first[1].file = state_file
            /\ (/\ call.pc = "done"
                /\ ~call.dry_run
                /\ Full(call.all_logs, call.posts)
                /\ Full(call.first[1].all_logs, call.first[1].posts)) =>
                 /\ \A e \in EventIds :
                      Count(Posted(call.first[1].posts) \o Posted(call.posts), e) =
                        2 * Count(listing, e)
                 /\ call.first[1].sent_count = call.sent_count

\* C40 witness: both runs fetched the whole window and had every chunk
\* confirmed, while a fresh record of every event was in the store left by
\* a daemon; each event of the window was posted exactly twice.
C40_Witness ==
  /\ call.op = "forward_logs"
  /\ ~call.has_deduplicator
  /\ call.first # <<>>
  /\ call.pc = "done"
  /\ ~call.dry_run
  /\ ~call.repeated
  /\ call.all_logs = EventsInWindow(start_time, end_time)
  /\ call.first[1].all_logs = call.all_logs
  /\ Len(call.all_logs) > BatchSize
  /\ AllConfirmed(call.posts) /\ AllConfirmed(call.first[1].posts)
  /\ call.sent_count = << Len(call.all_logs) >>
  /\ call.first[1].sent_count = << Len(call.all_logs) >>
  /\ \A e \in Range(call.all_logs) :
       /\ Count(Posted(call.first[1].posts) \o Posted(call.posts), e) = 2
       /\ _generate_event_hash(e) \in DOMAIN PurgedAtEntry


(***************************************************************************)
(* EventDeduplicator on its own (deduplicator.py)                          *)
(*                                                                         *)
(* SpecDedup is one deduplicator object, constructed with or without a     *)
(* state file on disk, on which is_duplicate, filter_duplicates,           *)
(* mark_events_as_sent, get_stats and clear_state are called in any order  *)
(* while the clock advances between the calls.  `call` holds the last      *)
(* call's argument and result and, as history, when each record was made.  *)
(***************************************************************************)
\* calls made on the object
MaxCalls == 2
\* clock advances between the calls
MaxTicks == 1

\* the calls are about the source events but the last
DedupEvents == Len(SourceEvents) - 1

\* tracking_window_seconds the object is constructed with (main.py:274-280)
DefaultWindow == TrackingWindow(DefaultInterval, DefaultBuffer)

\* seconds the clock advances by: the window, a second less, a second more
ClockSteps == {DefaultWindow - 1, DefaultWindow, DefaultWindow + 1}

\* what the state file holds when the object is constructed: nothing (no
\* file), or a record of the last of these events
DedupFiles == { <<>>, << StoredAt({DedupEvents}, StartTime - FreshAge) >> }

DedupLists == UNION {[1 .. n -> 1 .. DedupEvents] : n \in 0 .. 2}

\* an is_duplicate that records the event it has checked
CheckedRecordsMarking(seen, e, t) == MarkedRecords(seen, <<e>>, t)

\* deduplicator.py:182-189: after its purge, is_duplicate only looks the
\* fingerprint up; the mapping stays as the purge left it
CheckedRecords(seen, e, t) == seen

\* a filter loop that keeps the duplicates too
FilterLoopKeepingAll(seen, window_, t, events, k) ==
  << _cleanup_old_entries(seen, TRUE, window_, t), events >>

RECURSIVE FilterLoop(_, _, _, _, _)
\* deduplicator.py:208-213: the loop of filter_duplicates from position k,
\* every turn calling is_duplicate at time t: << mapping, unique events >>
FilterLoop(seen, window_, t, events, k) ==
  IF k > Len(events) THEN << seen, <<>> >>
  ELSE LET purged == _cleanup_old_entries(seen, TRUE, window_, t)
           dup == is_duplicate(purged, TRUE, events[k])
           rest == FilterLoop(CheckedRecords(purged, events[k], t), window_, t,
                              events, k + 1)
       IN << rest[1], IF dup THEN rest[2] ELSE <<events[k]>> \o rest[2] >>

\* deduplicator.py:24-53: the object after construction
InitDedup ==
  /\ now = StartTime
  /\ interval = DefaultInterval
  /\ lookback = DefaultLookback
  /\ dedup_buffer_seconds = DefaultBuffer
  /\ enable_dedup \in BOOLEAN
  /\ pc = "top"
  /\ last_run_time = <<>>
  /\ start_time = 0
  /\ end_time = 0
  /\ logs = <<>>
  /\ i = 0
  /\ successfully_sent_events = <<>>
  /\ state_file \in DedupFiles
  /\ seen_events = _load_state(state_file, enable_dedup, window, now)
  /\ cycles = 0
  /\ restarts = 0
  /\ hist = InitHist
  /\ call = [op |-> "EventDeduplicator", n |-> 0, ticks |-> 0, last |-> "-",
             at |-> StartTime, events |-> <<>>, dup |-> FALSE, result |-> <<>>,
             made |-> seen_events, rechecked |-> FALSE, refiltered |-> FALSE,
             dropped |-> FALSE, purged |-> FALSE, save_failed |-> FALSE]

dedupFrame == << config, pc, last_run_time, start_time, end_time, logs, i,
                 successfully_sent_events, cycles, restarts, hist >>

\* the record of a call: its number, name, time and argument; as history
\*   made        when the record each fingerprint has (or had last) was made
\*   rechecked   is_duplicate follows an is_duplicate of the same event
\*   refiltered  filter_duplicates follows, at the same clock, a
\*               filter_duplicates and is given that call's result
\*   dropped     that earlier call had filtered some event out
\*   purged      filter_duplicates removed a record from the mapping
\*   save_failed the write of the state file failed in mark_events_as_sent
Called(name, events) ==
  [call EXCEPT !.n = @ + 1, !.last = name, !.at = now, !.events = events,
               !.rechecked = FALSE, !.refiltered = FALSE, !.dropped = FALSE,
               !.purged = FALSE, !.save_failed = FALSE]

\* time passes between two calls
ClockAdvance ==
  /\ call.ticks < MaxTicks
  /\ \E d \in ClockSteps : now' = now + d
  /\ call' = [call EXCEPT !.ticks = @ + 1]
  /\ UNCHANGED << dedupFrame, seen_events, state_file >>

\* deduplicator.py:164-189
IsDuplicate ==
  /\ call.n < MaxCalls
  /\ \E e \in 1 .. DedupEvents :
       IF ~enable_dedup
       THEN /\ call' = [Called("is_duplicate", <<e>>) EXCEPT
                          !.dup = FALSE,
                          !.rechecked = /\ call.last = "is_duplicate"
                                        /\ call.events = <<e>>]
            /\ UNCHANGED seen_events
       ELSE LET purged == _cleanup_old_entries(seen_events, TRUE, window, now)
            IN /\ call' = [Called("is_duplicate", <<e>>) EXCEPT
                             !.dup = is_duplicate(purged, TRUE, e),
                             !.rechecked = /\ call.last = "is_duplicate"
                                           /\ call.events = <<e>>]
               /\ seen_events' = CheckedRecords(purged, e, now)
  /\ UNCHANGED << now, dedupFrame, state_file >>

\* deduplicator.py:191-218
FilterDuplicates ==
  /\ call.n < MaxCalls
  /\ \E events \in DedupLists :
       LET out == IF enable_dedup
                  THEN FilterLoop(seen_events, window, now, events, 1)
                  ELSE << seen_events, events >>
       IN /\ seen_events' = out[1]
          /\ call' = [Called("filter_duplicates", events) EXCEPT
                        !.result = out[2],
                        !.refiltered = /\ call.last = "filter_duplicates"
                                       /\ call.at = now
                                       /\ events = call.result,
                        !.dropped = /\ call.last = "filter_duplicates"
                                    /\ call.result # call.events,
                        !.purged = out[1] # seen_events]
  /\ UNCHANGED << now, dedupFrame, state_file >>

\* deduplicator.py:220-247 with _save_state (135-162): a failed write is
\* logged and swallowed
MarkEventsAsSent ==
  /\ call.n < MaxCalls
  /\ \E events \in DedupLists :
       IF ~enable_dedup \/ events = <<>>
       THEN /\ call' = Called("mark_events_as_sent", events)
            /\ UNCHANGED << seen_events, state_file >>
       ELSE \E saved \in BOOLEAN :
              /\ seen_events' = MarkedRecords(seen_events, events, now)
              /\ state_file' = IF saved THEN <<seen_events'>> ELSE state_file
              /\ call' = [Called("mark_events_as_sent", events) EXCEPT
                            !.save_failed = ~saved,
                            !.made = MarkedRecords(
                                       [h \in DOMAIN call.made \cap DOMAIN seen_events
                                          |-> call.made[h]], events, now)]
  /\ UNCHANGED << now, dedupFrame >>

\* deduplicator.py:249-260
GetStats ==
  /\ call.n < MaxCalls
  /\ seen_events' = _cleanup_old_entries(seen_events, enable_dedup, window, now)
  /\ call' = Called("get_stats", <<>>)
  /\ UNCHANGED << now, dedupFrame, state_file >>

\* deduplicator.py:262-271: a failed unlink is logged and swallowed
ClearState ==
  /\ call.n < MaxCalls
  /\ seen_events' = EmptyMap
  /\ \E deleted \in BOOLEAN :
       state_file' = IF deleted THEN <<>> ELSE state_file
  /\ call' = [Called("clear_state", <<>>) EXCEPT !.made = EmptyMap]
  /\ UNCHANGED << now, dedupFrame >>

NextDedup ==
  \/ ClockAdvance
  \/ IsDuplicate
  \/ FilterDuplicates
  \/ MarkEventsAsSent
  \/ GetStats
  \/ ClearState

SpecDedup == InitDedup /\ [][NextDedup]_vars


\* the step is a call of is_duplicate or filter_duplicates
ReadCall ==
  /\ call.op = "EventDeduplicator"
  /\ call'.n = call.n + 1
  /\ call'.last \in {"is_duplicate", "filter_duplicates"}

\* C17 (as claimed): is_duplicate(e) on an enabled store returns true
\* exactly when e has a record, made by mark_sent and not cleared since,
\* whose age is at most the tracking window.
C17_DuplicateWhileAgeWithinWindow ==
  (call.op = "EventDeduplicator" /\ enable_dedup /\ call.last = "is_duplicate") =>
    LET h == _generate_event_hash(call.events[1])
    IN call.dup = (/\ h \in DOMAIN call.made
                   /\ call.at - call.made[h] <= window)

\* C18: a call of is_duplicate or filter_duplicates adds no fingerprint to
\* the record mapping and leaves the state file as it is; an is_duplicate
\* that follows an is_duplicate of the same event which returned false
\* returns false.
C18_ReadsNeverCommit ==
  [][ ReadCall =>
        /\ DOMAIN seen_events' \subseteq DOMAIN seen_events
        /\ state_file' = state_file
        /\ (call'.rechecked /\ ~call.dup) => ~call'.dup
    ]_vars

\* C18 witness: an event was checked twice in a row on a store that holds
\* a record of another event, in memory and on disk; it is no duplicate
\* and has no record.
C18_Witness ==
  /\ call.op = "EventDeduplicator"
  /\ enable_dedup
  /\ call.last = "is_duplicate"
  /\ call.rechecked
  /\ ~call.dup
  /\ seen_events # EmptyMap
  /\ state_file = <<seen_events>>
  /\ _generate_event_hash(call.events[1]) \notin DOMAIN seen_events

\* C19 (as claimed): a call of filter_duplicates leaves the record mapping
\* and the state file as they were.
C19_FilterLeavesStoreUnchanged ==
  [][ (ReadCall /\ call'.last = "filter_duplicates") =>
        /\ seen_events' = seen_events
        /\ state_file' = state_file
    ]_vars

\* C19 (amended): a call of filter_duplicates leaves the state file as it
\* was and adds no record to the mapping nor changes one; it removes from
\* the mapping only records whose age has reached the tracking window.
C19_FilterOnlyPurgesExpired ==
  [][ (ReadCall /\ call'.last = "filter_duplicates") =>
        /\ state_file' = state_file
        /\ \A h \in DOMAIN seen_events' :
              h \in DOMAIN seen_events /\ seen_events'[h] = seen_events[h]
        /\ \A h \in DOMAIN seen_events :
              now - seen_events[h] < window => h \in DOMAIN seen_events'
    ]_vars

\* C19 witness: a filter_duplicates call has removed a record that the
\* state file still holds, and has let the event of that record through.
C19_Witness ==
  /\ call.op = "EventDeduplicator"
  /\ call.last = "filter_duplicates"
  /\ call.purged
  /\ state_file # <<>>
  /\ \E e \in Range(call.result) :
        /\ _generate_event_hash(e) \in DOMAIN state_file[1]
        /\ _generate_event_hash(e) \notin DOMAIN seen_events

\* C20: filter_duplicates given the result of the filter_duplicates call
\* just before it, at the same clock, returns the list it is given.
C20_FilterIdempotent ==
  (call.op = "EventDeduplicator" /\ call.last = "filter_duplicates"
     /\ call.refiltered) => call.result = call.events

\* C20 witness: the first of the two calls filtered an event out and let
\* another through.
C20_Witness ==
  /\ call.op = "EventDeduplicator"
  /\ call.last = "filter_duplicates"
  /\ call.refiltered
  /\ call.dropped
  /\ call.result # <<>>
  /\ call.result = call.events

\* a call of is_duplicate, filter_duplicates or mark_events_as_sent
StoreCall ==
  /\ call.op = "EventDeduplicator"
  /\ call'.n = call.n + 1
  /\ call'.last \in {"is_duplicate", "filter_duplicates", "mark_events_as_sent"}

\* C25: on a store constructed with deduplication disabled the record
\* mapping is empty from construction on, whatever the state file holds;
\* is_duplicate returns false, filter_duplicates returns its input, and
\* neither these two nor mark_sent change the mapping or the state file.
C25_DisabledIsPassThrough ==
  [][ (call.op = "EventDeduplicator" /\ ~enable_dedup) =>
        /\ seen_events = EmptyMap
        /\ seen_events' = EmptyMap
        /\ StoreCall =>
             /\ state_file' = state_file
             /\ call'.last = "is_duplicate" => ~call'.dup
             /\ call'.last = "filter_duplicates" => call'.result = call'.events
    ]_vars

\* C25 witness: a disabled store was constructed where a state file with a
\* record exists; an event with that record was checked, then marked; the
\* mapping is empty and the file is as it was.
C25_Witness ==
  /\ call.op = "EventDeduplicator"
  /\ ~enable_dedup
  /\ call.n = 2
  /\ call.last = "mark_events_as_sent"
  /\ call.events # <<>>
  /\ ~call.dup
  /\ state_file # <<>>
  /\ Hash(Range(call.events)) \subseteq DOMAIN state_file[1]
  /\ seen_events = EmptyMap

\* a call of mark_events_as_sent with a list that is not empty, on an
\* enabled store
MarkCall ==
  /\ call.op = "EventDeduplicator"
  /\ enable_dedup
  /\ call'.n = call.n + 1
  /\ call'.last = "mark_events_as_sent"
  /\ call'.events # <<>>

\* C33: mark_sent with a list that is not empty keeps every record with its
\* time, adds a record with the current time for each fingerprint of the
\* list that had none, and nothing else; unless the write fails, the state
\* file then holds the whole mapping, whether a record was added or not.
C33_MarkInsertsOnceAndSaves ==
  [][ MarkCall =>
        /\ DOMAIN seen_events' = DOMAIN seen_events \cup Hash(Range(call'.events))
        /\ \A h \in DOMAIN seen_events : seen_events'[h] = seen_events[h]
        /\ \A h \in DOMAIN seen_events' \ DOMAIN seen_events : seen_events'[h] = now
        /\ state_file' = IF call'.save_failed THEN state_file ELSE <<seen_events'>>
    ]_vars

\* C33 witness: every event of the list had a record older than the call;
\* the records have kept their times and the state file was written.
C33_Witness ==
  /\ call.op = "EventDeduplicator"
  /\ enable_dedup
  /\ call.last = "mark_events_as_sent"
  /\ call.events # <<>>
  /\ ~call.save_failed
  /\ \A e \in Range(call.events) :
       /\ _generate_event_hash(e) \in DOMAIN seen_events
       /\ seen_events[_generate_event_hash(e)] < call.at
  /\ state_file = <<seen_events>>

\* a call of filter_duplicates
FilterCall ==
  /\ call.op = "EventDeduplicator"
  /\ call'.n = call.n + 1
  /\ call'.last = "filter_duplicates"

\* C34: what filter_duplicates returns is its input with the events left
\* out for which is_duplicate is true at the time of the call, that is,
\* on an enabled store, those whose fingerprint has a record that the
\* purge leaves; the others stay, as often as they occur and in the order
\* of the input.
C34_FilterIsOrderedSublist ==
  [][ FilterCall =>
        LET kept == _cleanup_old_entries(seen_events, enable_dedup, window, now)
            unique(e) == ~(enable_dedup /\ _generate_event_hash(e) \in DOMAIN kept)
        IN call'.result = SelectSeq(call'.events, unique)
    ]_vars

\* C34 witness: of two events the first had a record within the window
\* and the second had none; the result is the second alone.
C34_Witness ==
  /\ call.op = "EventDeduplicator"
  /\ enable_dedup
  /\ call.last = "filter_duplicates"
  /\ Len(call.events) = 2
  /\ _generate_event_hash(call.events[1]) \in DOMAIN seen_events
  /\ _generate_event_hash(call.events[2]) \notin DOMAIN seen_events
  /\ call.result = << call.events[2] >>


(***************************************************************************)
(* CrusoeClient.get_audit_logs_paginated on its own                        *)
(* (crusoe_client.py:153-277)                                              *)
(*                                                                         *)
(* SpecFetch is one call of get_audit_logs_paginated(page_size, max_pages) *)
(* against a source that holds a fixed list of events for the window and   *)
(* serves limit and offset as asked; a request can also end with a source  *)
(* API error or with an unexpected exception.  `call` holds the arguments, *)
(* the locals, the result and, as history, the requests made.              *)
(***************************************************************************)
\* most events the source holds for the window
MaxSource == 4
\* largest page size
MaxPageSize == 3
\* largest page cap
MaxPagesCap == 2

\* the events the source holds, in its order
SourceList(n) == [k \in 1 .. n |-> k]

\* crusoe_client.py:179-189: the query parameters of a page request; limit
\* and offset are sent only when truthy (<<>>: parameter not sent)
QueryParams(limit, offset) ==
  [limit |-> IF limit # 0 THEN <<limit>> ELSE <<>>,
   offset |-> IF offset # 0 THEN <<offset>> ELSE <<>>]

\* the source's answer to a page request: without offset from the first
\* event, without limit all the rest
ServePage(source, params) ==
  LET off == IF params.offset = <<>> THEN 0 ELSE params.offset[1]
      lim == IF params.limit = <<>> THEN Len(source) ELSE params.limit[1]
  IN Slice(source, off, off + lim)

\* a page as long as the page size taken for the last one
LastPageIfNotLonger(page, page_size) == Len(page) <= page_size

\* crusoe_client.py:264-266: fewer logs than page_size ends the pagination
LastPage(page, page_size) == Len(page) < page_size

\* crusoe_client.py:243-244: if max_pages and page_count >= max_pages
CapReached(max_pages, page_count) ==
  /\ max_pages # <<>>
  /\ max_pages[1] # 0
  /\ page_count >= max_pages[1]

\* crusoe_client.py:220-241: the call is entered
InitFetch ==
  /\ NoDaemon
  /\ \E n \in 0 .. MaxSource, p \in 1 .. MaxPageSize,
        cap \in {<<>>} \cup {<<k>> : k \in 0 .. MaxPagesCap} :
       call = [op |-> "get_audit_logs_paginated", source |-> SourceList(n),
               page_size |-> p, max_pages |-> cap,
               all_logs |-> <<>>, offset |-> 0, page_count |-> 0,
               pc |-> "loop", result |-> <<>>, exc |-> "none",
               requests |-> <<>>, api_error |-> FALSE, unexpected |-> FALSE]

\* crusoe_client.py:246-275: one turn of the loop below the page cap: the
\* request for the page at the offset ends with the page, with a source API
\* error or with an unexpected exception
FetchPage ==
  /\ call.op = "get_audit_logs_paginated"
  /\ call.pc = "loop"
  /\ ~CapReached(call.max_pages, call.page_count)
  /\ \E outcome \in {"page", "CrusoeAPIError", "Exception"} :
       LET params == QueryParams(call.page_size, call.offset)
           page == ServePage(call.source, params)
           asked == [call EXCEPT !.requests = Append(@, params)]
           returned == [asked EXCEPT !.pc = "returned",
                                     !.result = <<asked.all_logs>>]
       IN call' =
            IF outcome = "page"
            THEN IF page = <<>>
                 THEN returned
                 ELSE LET got == [asked EXCEPT !.all_logs = @ \o page,
                                               !.offset = @ + Len(page),
                                               !.page_count = @ + 1]
                      IN IF LastPage(page, call.page_size)
                         THEN [got EXCEPT !.pc = "returned",
                                          !.result = <<got.all_logs>>]
                         ELSE got
            ELSE LET failed == [asked EXCEPT
                                  !.api_error = @ \/ outcome = "CrusoeAPIError",
                                  !.unexpected = @ \/ outcome = "Exception"]
                 IN IF PaginationHandler(outcome) = "raise"
                    THEN [failed EXCEPT !.pc = "raised", !.exc = outcome]
                    ELSE [failed EXCEPT !.pc = "returned",
                                        !.result = <<failed.all_logs>>]
  /\ UNCHANGED daemonVars

\* crusoe_client.py:243-244 and 276-277: the page cap ends the loop
FetchCapReached ==
  /\ call.op = "get_audit_logs_paginated"
  /\ call.pc = "loop"
  /\ CapReached(call.max_pages, call.page_count)
  /\ call' = [call EXCEPT !.pc = "returned", !.result = <<call.all_logs>>]
  /\ UNCHANGED daemonVars

NextFetch ==
  \/ FetchPage
  \/ FetchCapReached

SpecFetch == InitFetch /\ [][NextFetch]_vars

\* the call has no page cap
NoCap == call.max_pages = <<>> \/ call.max_pages[1] = 0

\* C29: a call without page cap whose every request was answered with the
\* page asked for returns the source's events, each once, in the source's
\* order, after at most N / page_size + 1 requests; until it returns, what
\* it has collected is the source's first events.
C29_FetchAllReturnsSource ==
  (/\ call.op = "get_audit_logs_paginated"
   /\ NoCap /\ ~call.api_error /\ ~call.unexpected) =>
    /\ call.all_logs = SubSeq(call.source, 1, call.offset)
    /\ Len(call.requests) <= Len(call.source) \div call.page_size + 1
    /\ call.pc = "returned" => call.result = <<call.source>>

\* C29 witness: the source holds a multiple of the page size, more than
\* one page, and the call has returned all of it.
C29_Witness ==
  /\ call.op = "get_audit_logs_paginated"
  /\ NoCap /\ ~call.api_error /\ ~call.unexpected
  /\ call.pc = "returned"
  /\ call.page_size > 1
  /\ Len(call.source) = 2 * call.page_size
  /\ call.result = <<call.source>>
  /\ Len(call.requests) = 3

\* C30: once a page request has ended with a source API error the call has
\* raised that error and returns no list; the failing request is the last
\* one it made.
C30_ApiErrorAbortsPagination ==
  (call.op = "get_audit_logs_paginated" /\ call.api_error) =>
    /\ call.pc = "raised"
    /\ call.exc = "CrusoeAPIError"
    /\ call.result = <<>>
    /\ Len(call.requests) = call.page_count + 1

\* C30 witness: the error came after a full page had been fetched.
C30_Witness ==
  /\ call.op = "get_audit_logs_paginated"
  /\ call.api_error
  /\ call.pc = "raised"
  /\ call.page_count > 0
  /\ call.all_logs # <<>>
  /\ call.result = <<>>

\* the offset a page request asks for and the page the source serves for it
RequestOffset(params) == IF params.offset = <<>> THEN 0 ELSE params.offset[1]
ServedLen(k) == Len(ServePage(call.source, call.requests[k]))

RECURSIVE SumServed(_)
\* the number of events of the first k pages
SumServed(k) == IF k = 0 THEN 0 ELSE SumServed(k - 1) + ServedLen(k)

\* C31 (as claimed): every page request has limit = page_size and the
\* offset that is the number of events of the pages before it; every
\* request but the last was answered by a full page; with a page cap of
\* max_pages no more than max_pages requests are made; and the number of
\* requests is at most N / page_size + 1 for a source of N events.
C31_RequestsInSequenceUntilShortOrCap ==
  call.op = "get_audit_logs_paginated" =>
    /\ \A k \in 1 .. Len(call.requests) :
         /\ call.requests[k].limit = << call.page_size >>
         /\ RequestOffset(call.requests[k]) = SumServed(k - 1)
         /\ k < Len(call.requests) => ServedLen(k) = call.page_size
    /\ call.max_pages # <<>> => Len(call.requests) <= call.max_pages[1]
    /\ Len(call.requests) <= Len(call.source) \div call.page_size + 1

\* C32: once a page request has ended with an unexpected exception the call
\* has returned, without an exception, the events of the whole pages
\* fetched before that request (none if it was the first), and the failing
\* request is the last one it made; once a request has ended with a source
\* API error the call has raised instead.
C32_UnexpectedErrorTruncates ==
  call.op = "get_audit_logs_paginated" =>
    /\ call.unexpected =>
         /\ call.pc = "returned"
         /\ call.exc = "none"
         /\ call.result = << SubSeq(call.source, 1, call.page_count * call.page_size) >>
         /\ Len(call.requests) = call.page_count + 1
    /\ call.api_error => call.pc = "raised" /\ ~call.unexpected

\* C32 witness: the exception came on the second page; the call has
\* returned the first page, which is not all the source holds.
C32_Witness ==
  /\ call.op = "get_audit_logs_paginated"
  /\ call.unexpected
  /\ call.pc = "returned"
  /\ call.page_count = 1
  /\ call.result = << SubSeq(call.source, 1, call.page_size) >>
  /\ Len(call.source) > call.page_size


(***************************************************************************)
(* EventDeduplicator._generate_event_hash on event dictionaries            *)
(* (deduplicator.py:55-80)                                                 *)
(*                                                                         *)
(* SpecHash hashes two events drawn from HashEvents.  An event is a        *)
(* function from the names of the fields it has to their values; a value   *)
(* is a string ([t |-> "str", v |-> characters]) or an integer             *)
(* ([t |-> "int", v |-> n]).  The SHA-256 digest is taken to be injective: *)
(* the fingerprint is the key string.                                      *)
(***************************************************************************)
IdentityFields ==
  << "start_time", "actor_id", "action", "target_type", "target_id",
     "organization_id" >>

StrValue(chars) == [t |-> "str", v |-> chars]
IntValue(n) == [t |-> "int", v |-> n]

RECURSIVE Digits(_)
\* str(n) of an integer n >= 0
Digits(n) ==
  LET digit == <<"0", "1", "2", "3", "4", "5", "6", "7", "8", "9">>
      d == digit[(n % 10) + 1]
  IN IF n < 10 THEN <<d>> ELSE Digits(n \div 10) \o <<d>>

\* str(value)
Str(value) == IF value.t = "int" THEN Digits(value.v) ELSE value.v

\* event.get(field, default)
EventGet(event, field, default) ==
  IF field \in DOMAIN event THEN event[field] ELSE default

\* key fields that include a field which is no identity field
key_fields_with_email(event) ==
  [k \in 1 .. Len(IdentityFields) + 1 |->
     IF k <= Len(IdentityFields)
     THEN EventGet(event, IdentityFields[k], StrValue(<<>>))
     ELSE EventGet(event, "actor_email", StrValue(<<>>))]

\* deduplicator.py:66-74
key_fields(event) ==
  [k \in 1 .. Len(IdentityFields) |->
     EventGet(event, IdentityFields[k], StrValue(<<>>))]

\* deduplicator.py:77  '|'.join(str(field) for field in key_fields)
key_string(event) ==
  LET fields == key_fields(event)
  IN Join([k \in 1 .. Len(fields) |-> Str(fields[k])])

\* deduplicator.py:80, the digest taken as injective
event_hash(event) == key_string(event)

\* values of a field that varies: <<>> is a missing field
VaryingValues ==
  { <<>>, << StrValue(<<>>) >>, << StrValue(<<"a">>) >>, << StrValue(<<"|">>) >>,
    << StrValue(<<"a", "|">>) >>, << StrValue(<<"1">>) >>, << IntValue(1) >> }

\* values of the field that is no identity field
OtherValues == { <<>>, << StrValue(<<"x">>) >>, << StrValue(<<"y">>) >> }

\* an event with the given actor_id, action and actor_email (each possibly
\* missing) and fixed other fields
MakeEvent(actor, action, email) ==
  [f \in {"start_time", "target_type", "target_id", "organization_id"}
         \cup (IF actor = <<>> THEN {} ELSE {"actor_id"})
         \cup (IF action = <<>> THEN {} ELSE {"action"})
         \cup (IF email = <<>> THEN {} ELSE {"actor_email"}) |->
     IF f = "actor_id" THEN actor[1]
     ELSE IF f = "action" THEN action[1]
     ELSE IF f = "actor_email" THEN email[1]
     ELSE IF f = "target_id" THEN IntValue(7)
     ELSE StrValue(<<"t">>)]

HashEvents ==
  { MakeEvent(a, b, x) : a \in VaryingValues, b \in VaryingValues, x \in OtherValues }

\* two events are given
InitHash ==
  /\ NoDaemon
  /\ \E e1 \in HashEvents, e2 \in HashEvents :
       call = [op |-> "_generate_event_hash", events |-> <<e1, e2>>,
               hashes |-> <<>>]

\* deduplicator.py:55-80: the next event is hashed
GenerateEventHash ==
  /\ call.op = "_generate_event_hash"
  /\ Len(call.hashes) < Len(call.events)
  /\ call' = [call EXCEPT !.hashes =
                Append(@, event_hash(call.events[Len(call.hashes) + 1]))]
  /\ UNCHANGED daemonVars

NextHash == GenerateEventHash

SpecHash == InitHash /\ [][NextHash]_vars

\* both events have been hashed
BothHashed == call.op = "_generate_event_hash" /\ Len(call.hashes) = 2

\* the two events agree on the six identity fields, a missing field
\* counting as the empty string
SameIdentity ==
  \A k \in 1 .. Len(IdentityFields) :
     EventGet(call.events[1], IdentityFields[k], StrValue(<<>>)) =
     EventGet(call.events[2], IdentityFields[k], StrValue(<<>>))

\* C27: two events that agree on the six identity fields (missing counting
\* as empty) have the same fingerprint, whatever other fields they have;
\* is_duplicate, which looks only the fingerprint up, cannot tell them apart.
C27_FingerprintOnlyIdentityFields ==
  (BothHashed /\ SameIdentity) => call.hashes[1] = call.hashes[2]

\* C27 witness: the two events differ in the field that is no identity
\* field and one has an identity field missing that the other has empty.
C27_Witness ==
  /\ BothHashed
  /\ SameIdentity
  /\ "actor_email" \in DOMAIN call.events[1]
  /\ "actor_email" \notin DOMAIN call.events[2]
  /\ "action" \in DOMAIN call.events[1]
  /\ "action" \notin DOMAIN call.events[2]
  /\ call.hashes[1] = call.hashes[2]

\* C28 (as claimed): two events that differ in an identity field have
\* different key strings, hence different fingerprints.
C28_KeyStringInjective ==
  (BothHashed /\ ~SameIdentity) => call.hashes[1] # call.hashes[2]


(***************************************************************************)
(* The state file of the deduplicator (deduplicator.py)                    *)
(*                                                                         *)
(* SpecPersist is one enabled deduplicator and its state file over several *)
(* process lifetimes.  The object is constructed on whatever the state     *)
(* file holds, valid or not; mark_events_as_sent inserts and then saves in *)
(* three steps (open the temporary file, dump and close, replace), each of *)
(* which can fail, and the process can be killed between any two steps;    *)
(* a killed process is constructed again on the files it left.  The text   *)
(* of the file holds every timestamp as the digits json.dump writes, and   *)
(* the load converts the digits back.  `call` holds the position in the    *)
(* save, the temporary file and the history the properties refer to.       *)
(***************************************************************************)
\* clock advances during the lifetimes
MaxClock == 1

\* calls of mark_events_as_sent, and kills of the process
MaxMarks == 1
MaxKills == 1

\* seconds the clock advances by: a second less than the window, the window
PersistSteps == {DefaultWindow - 1, DefaultWindow}

\* lists handed to mark_events_as_sent
PersistLists == { <<>>, <<1>>, <<1, DedupEvents>> }

\* deduplicator.py:42-45: the default path, as stem and suffix
StateFilePath == << ".crusoe_dedup_state", ".json" >>

\* a temporary file that is the state file itself
with_suffix_same(path, suffix) == path

\* Path.with_suffix: the path with its suffix replaced
with_suffix(path, suffix) == << path[1], suffix >>

\* deduplicator.py:150  temp_file = self.state_file.with_suffix('.tmp')
TempFile == with_suffix(StateFilePath, ".tmp")

\* what a file holds: the kind of its text and, for a JSON object, the
\* members _save_state writes
FileContent(kind, records, window_, updated) ==
  [kind |-> kind, seen_events |-> records, tracking_window_seconds |-> window_,
   last_updated |-> updated]

\* a file opened for writing, with none or a part of the text written
Truncated == FileContent("truncated", EmptyMap, 0, 0)

\* a data dictionary without the records
StateDataWithoutRecords(seen, window_, t) ==
  FileContent("object", EmptyMap, window_, t)

\* deduplicator.py:143-152: the data json.dump writes; every timestamp
\* becomes the digits of the number
StateData(seen, window_, t) ==
  FileContent("object", [h \in DOMAIN seen |-> Digits(seen[h])], window_, t)

\* the text of a timestamp is a number
IsNumber(text) ==
  /\ text # <<>>
  /\ \A k \in 1 .. Len(text) :
       text[k] \in {"0", "1", "2", "3", "4", "5", "6", "7", "8", "9"}

RECURSIVE ToFloat(_)
\* deduplicator.py:119  float(timestamp) of the text of a number
ToFloat(text) ==
  LET digit == <<"0", "1", "2", "3", "4", "5", "6", "7", "8", "9">>
      last == CHOOSE v \in 0 .. 9 : digit[v + 1] = text[Len(text)]
  IN IF Len(text) = 1 THEN last
     ELSE 10 * ToFloat(SubSeq(text, 1, Len(text) - 1)) + last

\* a timestamp that is the JSON value null
NullTimestamp == << "null" >>

\* deduplicator.py:110-122: the exception the try block of _load_state
\* ends with on the content of an existing file, "-" if it ends normally
LoadException(content) ==
  IF content.kind = "unreadable" THEN "PermissionError"
  ELSE IF content.kind \in {"not_json", "truncated"} THEN "JSONDecodeError"
  ELSE IF content.kind \in {"array", "records_array"} THEN "AttributeError"
  ELSE IF \E h \in DOMAIN content.seen_events :
            content.seen_events[h] = NullTimestamp THEN "TypeError"
  ELSE IF \E h \in DOMAIN content.seen_events :
            ~IsNumber(content.seen_events[h]) THEN "ValueError"
  ELSE "-"

\* a _load_state with the first except clause only
LoadStateHandlerNarrow(exc) ==
  IF exc \in {"JSONDecodeError", "ValueError", "KeyError"} THEN "warning"
  ELSE "raise"

\* deduplicator.py:128-133: the except clauses of _load_state
LoadStateHandler(exc) ==
  IF exc \in {"JSONDecodeError", "ValueError", "KeyError"} THEN "warning"
  ELSE IF exc \in {"PermissionError", "AttributeError", "TypeError"}
  THEN "error"
  ELSE "raise"

\* deduplicator.py:105-133: _load_state on the text of the file: the
\* exception it lets out ("-" for none) and the record mapping it leaves
LoadOutcome(file, window_, t) ==
  IF file = <<>> THEN [exc |-> "-", records |-> EmptyMap]
  ELSE LET exc == LoadException(file[1])
           text == file[1].seen_events
       IN IF exc = "-"
          THEN [exc |-> "-",
                records |-> _load_state(<< [h \in DOMAIN text |-> ToFloat(text[h])] >>,
                                        TRUE, window_, t)]
          ELSE IF LoadStateHandler(exc) = "raise"
          THEN [exc |-> exc, records |-> EmptyMap]
          ELSE [exc |-> "-", records |-> EmptyMap]

\* the records a file was written from, none if it is not such a file
WrittenFrom(file) ==
  IF file = <<>> \/ LoadException(file[1]) # "-" THEN EmptyMap
  ELSE [h \in DOMAIN file[1].seen_events |-> ToFloat(file[1].seen_events[h])]

\* a record of the last event, and one of the first event beside it
OneRecord == StoredAt({DedupEvents}, StartTime - FreshAge)
BadBesideGood(bad) ==
  [h \in Hash({1, DedupEvents}) |->
     IF h = _generate_event_hash(1) THEN bad ELSE Digits(StartTime - FreshAge)]

\* what the state file holds when the object is first constructed: no
\* file, a file _save_state wrote, and files that are unreadable, no JSON,
\* JSON with records that are no mapping or with a timestamp that is no
\* number
PersistFiles ==
  { <<>>,
    << StateData(OneRecord, DefaultWindow, StartTime - FreshAge) >>,
    << FileContent("unreadable", EmptyMap, 0, 0) >>,
    << FileContent("not_json", EmptyMap, 0, 0) >>,
    << FileContent("records_array", EmptyMap, 0, 0) >>,
    << FileContent("object", BadBesideGood(<<"x">>), DefaultWindow, StartTime) >> }

\* deduplicator.py:24-53: the object after its first construction
\*   pc        idle, or the step of _save_state that is next, or dead
\*   temp      what the temporary file holds
\*   exc       the exception a construction has let out
\*   read      as history: the file the last construction found
\*   saved     as history: the records and the time of the last save that
\*             was completed, none after the file was deleted
\*   valid0    as history: the first construction found no file or a file
\*             _save_state wrote
\*   killed    as history: the step the process was killed at last
\*   restarted, cleared, since_clear   as history: a process was
\*             constructed after a kill; clear_state was called; it was
\*             called and no event was marked since
InitPersist ==
  /\ now = StartTime
  /\ interval = DefaultInterval
  /\ lookback = DefaultLookback
  /\ dedup_buffer_seconds = DefaultBuffer
  /\ enable_dedup = TRUE
  /\ pc = "top"
  /\ last_run_time = <<>>
  /\ start_time = 0
  /\ end_time = 0
  /\ logs = <<>>
  /\ i = 0
  /\ successfully_sent_events = <<>>
  /\ state_file \in PersistFiles
  /\ seen_events = LoadOutcome(state_file, window, now).records
  /\ cycles = 0
  /\ restarts = 0
  /\ hist = InitHist
  /\ call = [op |-> "persistence",
             pc |-> IF LoadOutcome(state_file, window, now).exc = "-"
                    THEN "idle" ELSE "raised",
             exc |-> LoadOutcome(state_file, window, now).exc,
             temp |-> <<>>, ticks |-> 0, marks |-> 0, kills |-> 0, last |-> "construct", at |-> now,
             events |-> <<>>, dup |-> FALSE, read |-> state_file,
             saved |-> IF state_file # <<>> /\ LoadException(state_file[1]) = "-"
                       THEN << [records |-> WrittenFrom(state_file),
                                at |-> state_file[1].last_updated] >>
                       ELSE <<>>,
             valid0 |-> state_file = <<>> \/ LoadException(state_file[1]) = "-",
             killed |-> "-", restarted |-> FALSE, cleared |-> FALSE,
             since_clear |-> FALSE]

\* time passes while the process is idle or dead
PersistClock ==
  /\ call.op = "persistence"
  /\ call.pc \in {"idle", "dead"}
  /\ call.ticks < MaxClock
  /\ \E d \in PersistSteps : now' = now + d
  /\ call' = [call EXCEPT !.ticks = @ + 1]
  /\ UNCHANGED << dedupFrame, seen_events, state_file >>

\* deduplicator.py:164-189
PersistIsDuplicate ==
  /\ call.op = "persistence"
  /\ call.pc = "idle"
  /\ \E e \in 1 .. DedupEvents :
       LET purged == _cleanup_old_entries(seen_events, TRUE, window, now)
       IN /\ seen_events' = CheckedRecords(purged, e, now)
          /\ call' = [call EXCEPT !.last = "is_duplicate", !.at = now,
                                  !.events = <<e>>,
                                  !.dup = is_duplicate(purged, TRUE, e)]
  /\ UNCHANGED << now, dedupFrame, state_file >>

\* deduplicator.py:220-244: mark_events_as_sent up to the call of
\* _save_state
PersistMark ==
  /\ call.op = "persistence"
  /\ call.pc = "idle"
  /\ call.marks < MaxMarks
  /\ \E events \in PersistLists :
       IF events = <<>>
       THEN /\ call' = [call EXCEPT !.last = "mark_events_as_sent", !.at = now,
                                    !.events = events, !.marks = @ + 1]
            /\ UNCHANGED seen_events
       ELSE /\ seen_events' = MarkedRecords(seen_events, events, now)
            /\ call' = [call EXCEPT !.last = "mark_events_as_sent", !.at = now,
                                    !.events = events, !.marks = @ + 1,
                                    !.pc = "open", !.since_clear = FALSE]
  /\ UNCHANGED << now, dedupFrame, state_file >>

\* deduplicator.py:140-151: mkdir and open(temp_file, 'w'); the file is
\* created or cut to nothing, or the exception is logged
SaveOpen ==
  /\ call.op = "persistence"
  /\ call.pc = "open"
  /\ \E outcome \in {"written", "Exception"} :
       IF outcome = "written"
       THEN IF TempFile = StateFilePath
            THEN /\ state_file' = << Truncated >>
                 /\ call' = [call EXCEPT !.pc = "dump"]
            ELSE /\ call' = [call EXCEPT !.pc = "dump", !.temp = << Truncated >>]
                 /\ UNCHANGED state_file
       ELSE /\ call' = [call EXCEPT !.pc = "idle"]
            /\ UNCHANGED state_file
  /\ UNCHANGED << now, dedupFrame, seen_events >>

\* deduplicator.py:151-152: json.dump and the close of the file; the whole
\* text is in the file, or the exception is logged and a part is
SaveDump ==
  /\ call.op = "persistence"
  /\ call.pc = "dump"
  /\ \E outcome \in {"written", "Exception"} :
       IF outcome = "written"
       THEN IF TempFile = StateFilePath
            THEN /\ state_file' = << StateData(seen_events, window, now) >>
                 /\ call' = [call EXCEPT !.pc = "replace"]
            ELSE /\ call' = [call EXCEPT !.pc = "replace",
                                         !.temp = << StateData(seen_events, window, now) >>]
                 /\ UNCHANGED state_file
       ELSE /\ call' = [call EXCEPT !.pc = "idle"]
            /\ UNCHANGED state_file
  /\ UNCHANGED << now, dedupFrame, seen_events >>

\* deduplicator.py:155  temp_file.replace(self.state_file); the state file
\* is the temporary file, or the exception is logged
SaveReplace ==
  /\ call.op = "persistence"
  /\ call.pc = "replace"
  /\ \E outcome \in {"written", "Exception"} :
       IF outcome = "written"
       THEN /\ state_file' = IF TempFile = StateFilePath THEN state_file
                             ELSE call.temp
            /\ call' = [call EXCEPT
                          !.pc = "idle",
                          !.temp = <<>>,
                          !.saved = << [records |-> seen_events, at |-> now] >>]
       ELSE /\ call' = [call EXCEPT !.pc = "idle"]
            /\ UNCHANGED state_file
  /\ UNCHANGED << now, dedupFrame, seen_events >>

\* deduplicator.py:262-271: a failed unlink is logged and swallowed
PersistClearState ==
  /\ call.op = "persistence"
  /\ call.pc = "idle"
  /\ seen_events' = EmptyMap
  /\ \E deleted \in BOOLEAN :
       /\ state_file' = IF deleted THEN <<>> ELSE state_file
       /\ call' = [call EXCEPT !.last = "clear_state", !.at = now,
                               !.events = <<>>, !.cleared = TRUE,
                               !.since_clear = TRUE,
                               !.saved = IF deleted \/ state_file = <<>>
                                         THEN <<>> ELSE @]
  /\ UNCHANGED << now, dedupFrame >>

\* the process is killed: the object is gone, the files stay
Kill ==
  /\ call.op = "persistence"
  /\ call.pc \in {"idle", "open", "dump", "replace"}
  /\ call.kills < MaxKills
  /\ seen_events' = EmptyMap
  /\ call' = [call EXCEPT !.pc = "dead", !.killed = call.pc, !.kills = @ + 1]
  /\ UNCHANGED << now, dedupFrame, state_file >>

\* deduplicator.py:24-53: a new process constructs the object on the same
\* path with the same window
Construct ==
  /\ call.op = "persistence"
  /\ call.pc = "dead"
  /\ LET out == LoadOutcome(state_file, window, now)
     IN /\ seen_events' = out.records
        /\ call' = [call EXCEPT !.pc = IF out.exc = "-" THEN "idle" ELSE "raised",
                                !.exc = out.exc, !.last = "construct",
                                !.at = now, !.events = <<>>,
                                !.read = state_file, !.restarted = TRUE]
  /\ UNCHANGED << now, dedupFrame, state_file >>

NextPersist ==
  \/ PersistClock
  \/ PersistIsDuplicate
  \/ PersistMark
  \/ SaveOpen
  \/ SaveDump
  \/ SaveReplace
  \/ PersistClearState
  \/ Kill
  \/ Construct

SpecPersist == InitPersist /\ [][NextPersist]_vars

\* the records of the last completed save
SavedRecords == IF call.saved = <<>> THEN EmptyMap ELSE call.saved[1].records


\* the last construction found a file it could not load
ReadBadFile == call.read # <<>> /\ LoadException(call.read[1]) # "-"

\* C21: on a store constructed after a restart, on a state file that was
\* valid or absent at first and was never cleared, is_duplicate(e) returns
\* true whenever the last completed save holds a record of e that is
\* younger than the tracking window, and the record in memory has the time
\* the save was given, which is the time of the mark.
C21_RecordsSurviveRestart ==
  (/\ call.op = "persistence"
   /\ call.valid0 /\ ~call.cleared
   /\ call.restarted
   /\ call.last = "is_duplicate") =>
    LET h == _generate_event_hash(call.events[1])
    IN (h \in DOMAIN SavedRecords /\ call.at - SavedRecords[h] < window) =>
         /\ call.dup
         /\ (call.pc # "dead" /\ call.at = now) =>
              /\ h \in DOMAIN seen_events
              /\ seen_events[h] = SavedRecords[h]

\* C21 witness: an event was marked and saved in the first lifetime, the
\* process was killed while idle, and the new process finds the event a
\* duplicate one second before its record reaches the tracking window.
C21_Witness ==
  /\ call.op = "persistence"
  /\ call.restarted
  /\ call.killed = "idle"
  /\ call.last = "is_duplicate"
  /\ call.dup
  /\ call.pc = "idle"
  /\ LET h == _generate_event_hash(call.events[1])
     IN /\ h \in DOMAIN SavedRecords
        /\ SavedRecords[h] >= StartTime
        /\ call.at - SavedRecords[h] = window - 1
        /\ seen_events[h] = SavedRecords[h]

\* C22: when the state file was valid or absent at first, it is at every
\* point, in the middle of a save and after a kill too, exactly what the
\* last completed save wrote (or absent when there was none), never a part
\* of a text; and the store a restart constructs holds the records of that
\* save that have not expired.
C22_KillDuringSaveKeepsPreviousState ==
  (call.op = "persistence" /\ call.valid0) =>
    /\ state_file =
         IF call.saved = <<>> THEN <<>>
         ELSE << StateData(call.saved[1].records, window, call.saved[1].at) >>
    /\ (call.restarted /\ call.last = "construct" /\ call.pc = "idle") =>
         seen_events = _cleanup_old_entries(SavedRecords, TRUE, window, call.at)

\* C22 witness: the process was killed after the temporary file was
\* written in full with a new record and before the rename; the restart
\* has loaded the records of the earlier save, and the temporary file with
\* the new record is still there.
C22_Witness ==
  /\ call.op = "persistence"
  /\ call.valid0
  /\ call.killed = "replace"
  /\ call.restarted
  /\ call.last = "construct"
  /\ call.pc = "idle"
  /\ call.temp # <<>> /\ call.temp # state_file
  /\ DOMAIN call.temp[1].seen_events # DOMAIN seen_events
  /\ seen_events # EmptyMap
  /\ seen_events = SavedRecords

\* C23: no construction lets an exception out; a store constructed on a
\* file that is unreadable, no JSON, cut short, of another shape or with a
\* timestamp that is no number starts with an empty mapping, and as long
\* as it lives on that file it holds no record but those marked since,
\* none of the file's.
C23_BadFileStartsEmpty ==
  call.op = "persistence" =>
    /\ call.exc = "-"
    /\ call.pc # "raised"
    /\ ReadBadFile =>
         /\ (call.last = "construct" /\ call.pc = "idle") => seen_events = EmptyMap
         /\ \A h \in DOMAIN seen_events : seen_events[h] >= StartTime

\* C23 witness: the store was constructed on a file with a timestamp that
\* is no number beside a good record; it has since marked an event, saved
\* the state and found the event a duplicate, and it holds no record of
\* the file's.
C23_Witness ==
  /\ call.op = "persistence"
  /\ ReadBadFile
  /\ call.read[1].kind = "object"
  /\ call.last = "is_duplicate"
  /\ call.dup
  /\ call.pc = "idle"
  /\ call.saved # <<>>
  /\ state_file = << StateData(seen_events, window, call.saved[1].at) >>
  /\ DOMAIN seen_events # DOMAIN call.read[1].seen_events

\* C26 (as claimed): after clear(), as long as no event is marked, the
\* record mapping is empty, the state file does not exist, is_duplicate
\* returns false, and a store constructed on the path starts empty.
C26_ClearLeavesNothing ==
  (call.op = "persistence" /\ call.since_clear /\ call.pc = "idle") =>
    /\ seen_events = EmptyMap
    /\ state_file = <<>>
    /\ call.last = "is_duplicate" => ~call.dup



(***************************************************************************)
(* CrusoeClient._sign_request (crusoe_client.py:61-151)                    *)
(*                                                                         *)
(* SpecSign is one call of _sign_request by a client with any of the       *)
(* credentials of SignConfigs, for a GET of an audit-log URL.  A           *)
(* credential is None or a string, a string being a sequence of            *)
(* characters.  HMAC-SHA256 and the base64 coding of its digest are kept   *)
(* as the pair of key and payload they are computed from.                  *)
(***************************************************************************)
NoneValue == [t |-> "none", v |-> <<>>]

\* bool(value) of an Optional[str]
Truthy(value) == value.t = "str" /\ value.v # <<>>

\* characters of the URL-safe base64 alphabet among those of the model
Base64Alphabet == {"Q", "w", "-", "_"}

\* base64.urlsafe_b64decode of the padded secret ends without an error:
\* characters outside the alphabet are skipped, and the characters left
\* must fill whole groups of four with the padding that was added
Decodable(secret) ==
  LET data == Len(SelectSeq(secret, LAMBDA ch : ch \in Base64Alphabet))
      padding == (4 - (Len(secret) % 4)) % 4
  IN \/ data % 4 = 0
     \/ data % 4 = 2 /\ padding >= 2
     \/ data % 4 = 3 /\ padding >= 1

\* crusoe_client.py:96-102: the path with the API version prefix removed
HttpPath(path) ==
  IF Len(path) > 0 /\ path[1] = "v1alpha5" THEN SubSeq(path, 2, Len(path))
  ELSE path

\* crusoe_client.py:104-110: the parameters sorted by name
CanonicalQuery(params) ==
  LET names == << "end_time", "limit", "offset", "start_time" >>
      present == SelectSeq(names, LAMBDA n : n \in DOMAIN params)
  IN [k \in 1 .. Len(present) |-> << present[k], params[present[k]] >>]

\* crusoe_client.py:116-119: the text that is signed
SignaturePayload(method, path, params, timestamp) ==
  << <<"v1alpha5">> \o HttpPath(path), CanonicalQuery(params), method, timestamp >>

\* a signer that signs with the keys although a token is configured
TokenModeNever(cfg) == FALSE

\* crusoe_client.py:75-78: Bearer authentication is used
TokenMode(cfg) == Truthy(cfg.api_token)

\* crusoe_client.py:80-82: the signature method is used
KeyedMode(cfg) ==
  /\ ~TokenMode(cfg)
  /\ Truthy(cfg.access_key_id)
  /\ Truthy(cfg.secret_access_key)

\* crusoe_client.py:87-151: _create_crusoe_signature: the exception it
\* raises ("none" for none) and the headers it returns
CreateCrusoeSignature(cfg, method, path, params, timestamp) ==
  IF ~Decodable(cfg.secret_access_key.v)
  THEN [exc |-> "CrusoeAPIError", headers |-> <<>>]
  ELSE [exc |-> "none",
        headers |-> <<
          [ n \in {"X-Crusoe-Timestamp", "Authorization"} |->
              IF n = "X-Crusoe-Timestamp" THEN << timestamp >>
              ELSE << "Bearer", "1.0", cfg.access_key_id.v,
                      [key |-> cfg.secret_access_key.v,
                       payload |-> SignaturePayload(method, path, params, timestamp)] >> ] >> ]

\* crusoe_client.py:61-85: _sign_request
SignOutcome(cfg, method, path, params, timestamp) ==
  IF TokenMode(cfg)
  THEN [exc |-> "none",
        headers |-> << [n \in {"Authorization"} |-> << "Bearer", cfg.api_token.v >>] >>]
  ELSE IF KeyedMode(cfg)
  THEN CreateCrusoeSignature(cfg, method, path, params, timestamp)
  ELSE [exc |-> "none", headers |-> << [n \in {} |-> <<>>] >>]

\* credentials a client is configured with
TokenValues == {NoneValue, StrValue(<<>>), StrValue(<<"t">>)}
KeyIdValues == {NoneValue, StrValue(<<>>), StrValue(<<"k">>)}
SecretValues ==
  {NoneValue, StrValue(<<>>), StrValue(<<"Q", "w">>), StrValue(<<"Q">>),
   StrValue(<<"Q", "!", "w", "_">>)}
SignConfigs ==
  [api_token : TokenValues, access_key_id : KeyIdValues,
   secret_access_key : SecretValues]

\* the requests get_audit_logs signs
SignPaths ==
  { <<"v1alpha5", "organizations", "org", "audit-logs">>,
    <<"organizations", "org", "audit-logs">> }
SignParams ==
  { [n \in {} |-> 0], [n \in {"limit"} |-> 2],
    [n \in {"offset", "limit"} |-> 2] }

\* crusoe_client.py:61: the call is entered
InitSign ==
  /\ NoDaemon
  /\ \E cfg \in SignConfigs, path \in SignPaths, params \in SignParams :
       call = [op |-> "_sign_request", config |-> cfg, method |-> "GET",
               path |-> path, params |-> params, timestamp |-> StartTime,
               pc |-> "call", headers |-> <<>>, exc |-> "none"]

\* crusoe_client.py:61-85
SignRequest ==
  /\ call.op = "_sign_request"
  /\ call.pc = "call"
  /\ LET out == SignOutcome(call.config, call.method, call.path, call.params,
                            call.timestamp)
     IN call' = [call EXCEPT !.pc = IF out.exc = "none" THEN "returned" ELSE "raised",
                             !.exc = out.exc, !.headers = out.headers]
  /\ UNCHANGED daemonVars

NextSign == SignRequest

SpecSign == InitSign /\ [][NextSign]_vars

\* the call has ended; the credentials that are configured
Signed == call.op = "_sign_request" /\ call.pc # "call"
HasToken == Truthy(call.config.api_token)
HasKeys == Truthy(call.config.access_key_id) /\ Truthy(call.config.secret_access_key)

\* the three sets of headers
TokenHeaders ==
  /\ call.pc = "returned"
  /\ DOMAIN call.headers[1] = {"Authorization"}
  /\ call.headers[1]["Authorization"] = << "Bearer", call.config.api_token.v >>
KeyedHeaders ==
  /\ call.pc = "returned"
  /\ DOMAIN call.headers[1] = {"Authorization", "X-Crusoe-Timestamp"}
  /\ SubSeq(call.headers[1]["Authorization"], 1, 3) =
       << "Bearer", "1.0", call.config.access_key_id.v >>
NoHeaders ==
  /\ call.pc = "returned"
  /\ DOMAIN call.headers[1] = {}

\* C35 (as claimed): with a token the call returns the token header alone;
\* with no token and both keys it returns the keyed Authorization and the
\* X-Crusoe-Timestamp header; otherwise it returns no header; it never
\* raises.
C35_OneModeFromCredentials ==
  Signed =>
    /\ HasToken => TokenHeaders
    /\ (~HasToken /\ HasKeys) => KeyedHeaders
    /\ (~HasToken /\ ~HasKeys) => NoHeaders

\* C35 (amended): as claimed, but in the keyed mode the two headers are
\* returned only when the secret can be base64-decoded; when it cannot,
\* the call raises CrusoeAPIError and returns no header.  The other two
\* modes never raise.
C35_OneModeUnlessSecretUndecodable ==
  Signed =>
    /\ HasToken => TokenHeaders
    /\ (~HasToken /\ HasKeys) =>
         IF Decodable(call.config.secret_access_key.v)
         THEN KeyedHeaders
         ELSE call.pc = "raised" /\ call.exc = "CrusoeAPIError" /\ call.headers = <<>>
    /\ (~HasToken /\ ~HasKeys) => NoHeaders

\* C35 witness: no token, a key id and a secret that cannot be decoded
\* are configured; the call has raised CrusoeAPIError.
C35_Witness ==
  /\ Signed
  /\ ~HasToken /\ HasKeys
  /\ ~Decodable(call.config.secret_access_key.v)
  /\ call.pc = "raised"
  /\ call.exc = "CrusoeAPIError"

=============================================================================
